---- MODULE Spec2Model ----
(***************************************************************************)
(* elm-forest: version parsing, constraint matching, version selection and *)
(* the cached / live version catalogue of src/src/forest.ts (the async     *)
(* revision src/unnamed/part_000 has the same code for these parts).       *)
(*                                                                         *)
(* Strings are sequences of one-character strings.  JavaScript numbers are *)
(* kept as canonical decimal digit sequences (<<1,8>> is 18), because      *)
(* Number.MAX_SAFE_INTEGER does not fit the integers of the checker and    *)
(* because the code compares version tuples through their decimal text.    *)
(***************************************************************************)
EXTENDS Integers, Sequences, FiniteSets, TLC

VARIABLES
    call,            \* the last library call: function, input, result
    manifest,        \* elm-package.json as found from the working directory
    cacheFile,       \* ~/.elm-forest/versions.json
    registry,        \* what the npm registry answers
    writeFails,      \* the cache write of this invocation failed
    pc,              \* position of Forest.current in this invocation
    constraints,     \* the constraints read from the manifest
    cacheRead,       \* the file queryVersionCache read and what it returned
    cachedVersions,  \* the pool getCachedVersions gave
    onlineVersions,  \* the pool queryElmVersions gave
    queried,         \* the registry was queried in this invocation
    outcome,         \* how the promise of Forest.current ended
    root,            \* elmRoot(version): the storage directory of one version
    task,            \* the call on the version store that is in progress
    steps,           \* the install steps executed so far, in order
    calls,           \* the calls on the version store that have ended
    cli,             \* the command line process: command, child, exit
    invocations      \* two invocations that install at the same time

vars == <<call, manifest, cacheFile, registry, writeFails, pc, constraints,
          cacheRead, cachedVersions, onlineVersions, queried, outcome,
          root, task, steps, calls, cli, invocations>>

catalogVars == <<manifest, cacheFile, registry, writeFails, pc, constraints,
                 cacheRead, cachedVersions, onlineVersions, queried, outcome>>

storeVars == <<root, task, steps, calls, invocations>>

(***************************************************************************)
(* Characters and strings                                                  *)
(***************************************************************************)
DigitChars == <<"0", "1", "2", "3", "4", "5", "6", "7", "8", "9">>

IsDigit(c) == \E i \in 1..10 : DigitChars[i] = c

DigitVal(c) == (CHOOSE i \in 1..10 : DigitChars[i] = c) - 1

IsSpace(c) == c = " "

\* UTF-16 code unit of the characters that occur in Array.prototype.toString
\* of a parsed version: "," is 44, "0".."9" are 48..57.
CharCode(c) == IF c = "," THEN 44 ELSE 48 + DigitVal(c)

\* s.startsWith(p)
StartsWith(s, p) == Len(p) <= Len(s) /\ SubSeq(s, 1, Len(p)) = p

\* Number of characters from position i on that satisfy the class
\* (digit / not digit / white space): the extent of a greedy \d+, [^\d]+, \s+.
RECURSIVE DigitRun(_, _)
DigitRun(s, i) ==
    IF i >= 1 /\ i <= Len(s) /\ IsDigit(s[i]) THEN 1 + DigitRun(s, i + 1) ELSE 0

RECURSIVE NonDigitRun(_, _)
NonDigitRun(s, i) ==
    IF i >= 1 /\ i <= Len(s) /\ ~IsDigit(s[i]) THEN 1 + NonDigitRun(s, i + 1) ELSE 0

RECURSIVE SpaceRun(_, _)
SpaceRun(s, i) ==
    IF i >= 1 /\ i <= Len(s) /\ IsSpace(s[i]) THEN 1 + SpaceRun(s, i + 1) ELSE 0

\* s has character c at position i
HasAt(s, i, c) == i >= 1 /\ i <= Len(s) /\ s[i] = c

\* Position after a piece of a pattern that is tried at position i; 0 when
\* the piece does not match there (or nothing matched before: i = 0).
\*   \d+
AfterDigits(s, i) == IF DigitRun(s, i) >= 1 THEN i + DigitRun(s, i) ELSE 0

\*   \s+
AfterSpaces(s, i) == IF SpaceRun(s, i) >= 1 THEN i + SpaceRun(s, i) ELSE 0

\*   (?:\.\d+)?  which is greedy: taken whenever it matches, else skipped
AfterDotDigits(s, i) ==
    IF HasAt(s, i, ".") /\ DigitRun(s, i + 1) >= 1
    THEN i + 1 + DigitRun(s, i + 1)
    ELSE i

(***************************************************************************)
(* Numbers as decimal digit sequences                                      *)
(***************************************************************************)
Zero == <<0>>

RECURSIVE StripZeros(_)
StripZeros(d) ==
    IF Len(d) > 1 /\ d[1] = 0 THEN StripZeros(Tail(d)) ELSE d

\* parseInt of a non-empty string of decimal digits
parseInt(s) == StripZeros([i \in 1..Len(s) |-> DigitVal(s[i])])

\* Number.prototype.toString
NumToString(n) == [i \in 1..Len(n) |-> DigitChars[n[i] + 1]]

\* n - 1 for n > 0
RECURSIVE DecPred(_)
DecPred(n) ==
    LET k == Len(n) IN
    IF n[k] > 0
    THEN StripZeros([n EXCEPT ![k] = n[k] - 1])
    ELSE StripZeros(Append(DecPred(SubSeq(n, 1, k - 1)), 9))

\* numeric a < b
RECURSIVE SeqLexLess(_, _)
SeqLexLess(x, y) ==
    IF x = <<>> THEN y # <<>>
    ELSE IF y = <<>> THEN FALSE
    ELSE IF Head(x) # Head(y) THEN Head(x) < Head(y)
    ELSE SeqLexLess(Tail(x), Tail(y))

NumLess(a, b) ==
    \/ Len(a) < Len(b)
    \/ Len(a) = Len(b) /\ SeqLexLess(a, b)

MAX_SAFE_INTEGER == <<9, 0, 0, 7, 1, 9, 9, 2, 5, 4, 7, 4, 0, 9, 9, 1>>

(***************************************************************************)
(* Version strings                                                         *)
(***************************************************************************)
Null == <<>>

STABLE == <<"s", "t", "a", "b", "l", "e">>
ALPHA == <<"a", "l", "p", "h", "a">>
BETA == <<"b", "e", "t", "a">>

\* String.prototype.match against VERSION_PATTERN
\*   /^(?:(\d)+(?:(?:\.)(\d+)(?:(?:\.)(\d+))?)?)(?:-([^\d]+)(\d+)?)?$/
\* Null when the string does not match, else <<g1, .., g5>>; a group that did
\* not take part is <<>> (undefined).  Group 1 is (\d)+ and so holds the
\* last digit of the run only.  p1, p2, p3 are the positions after the major,
\* the minor and the patch, p4 after the stage name, p5 after its number.
VersionGroups(s, p1, p2, p3, p4, p5) ==
    IF p1 # 0 /\ p5 = Len(s) + 1
    THEN << <<s[p1 - 1]>>,
            SubSeq(s, p1 + 1, p2 - 1),
            SubSeq(s, p2 + 1, p3 - 1),
            SubSeq(s, p3 + 1, p4 - 1),
            SubSeq(s, p4, p5 - 1) >>
    ELSE Null

\*   (\d+)?  after a stage name
VersionAfterStage(s, p1, p2, p3, p4) ==
    VersionGroups(s, p1, p2, p3, p4,
                  IF p4 > p3 THEN p4 + DigitRun(s, p4) ELSE p4)

\*   (?:-([^\d]+) ..)?
VersionAfterPatch(s, p1, p2, p3) ==
    VersionAfterStage(s, p1, p2, p3,
                      IF HasAt(s, p3, "-") /\ NonDigitRun(s, p3 + 1) >= 1
                      THEN p3 + 1 + NonDigitRun(s, p3 + 1)
                      ELSE p3)

\*   (?:(?:\.)(\d+))?  for the patch, which is tried only after a minor
VersionAfterMinor(s, p1, p2) ==
    VersionAfterPatch(s, p1, p2, IF p2 > p1 THEN AfterDotDigits(s, p2) ELSE p2)

\*   (?:(?:\.)(\d+) ..)?  for the minor
VersionAfterMajor(s, p1) == VersionAfterMinor(s, p1, AfterDotDigits(s, p1))

VERSION_PATTERN(s) == VersionAfterMajor(s, AfterDigits(s, 1))

\* Convert a release stage into a number
versionStageToInt(name) ==
    IF name = <<>> \/ name = STABLE THEN Zero
    ELSE IF name = ALPHA THEN DecPred(MAX_SAFE_INTEGER)
    ELSE IF name = BETA THEN DecPred(DecPred(MAX_SAFE_INTEGER))
    ELSE DecPred(DecPred(DecPred(MAX_SAFE_INTEGER)))

\* match[k] || "0"
OrZero(g) == IF g = <<>> THEN <<"0">> ELSE g

\* the array parseVersionString builds from a match
ParsedOf(matched) ==
    IF matched # Null
    THEN << parseInt(matched[1]),
            parseInt(OrZero(matched[2])),
            parseInt(OrZero(matched[3])),
            versionStageToInt(matched[4]),
            parseInt(OrZero(matched[5])) >>
    ELSE Null

parseVersionString(version) == ParsedOf(VERSION_PATTERN(version))

(***************************************************************************)
(* Comparison of parsed versions as the code performs it: the relational   *)
(* operators applied to two arrays compare their string conversions        *)
(* (elements joined by ",") code unit by code unit.                        *)
(***************************************************************************)
\* Array.prototype.toString of a parsed version
RECURSIVE ArrToString(_)
ArrToString(t) ==
    IF Len(t) = 1 THEN NumToString(t[1])
    ELSE NumToString(t[1]) \o <<",">> \o ArrToString(Tail(t))

\* x < y on strings
RECURSIVE StrLess(_, _)
StrLess(x, y) ==
    IF x = <<>> THEN y # <<>>
    ELSE IF y = <<>> THEN FALSE
    ELSE IF Head(x) # Head(y) THEN CharCode(Head(x)) < CharCode(Head(y))
    ELSE StrLess(Tail(x), Tail(y))

\* a < v on two ParsedVersion arrays
JsLess(a, v) == StrLess(ArrToString(a), ArrToString(v))

LT == <<"<">>
LE == <<"<", "=">>
GT == <<">">>
GE == <<">", "=">>

\* firstOp[op](a)(v): the literal is on the left
firstOp(op, a, v) ==
    CASE op = LT -> JsLess(a, v)
      [] op = LE -> ~JsLess(v, a)
      [] op = GT -> JsLess(v, a)
      [] op = GE -> ~JsLess(a, v)

\* secondOp[op](a)(v): the literal is on the right
secondOp(op, a, v) ==
    CASE op = LT -> JsLess(v, a)
      [] op = LE -> ~JsLess(a, v)
      [] op = GT -> JsLess(a, v)
      [] op = GE -> ~JsLess(v, a)

\* A predicate (closure) of parseConstraints as data, and its application
alwaysFail == [side |-> "alwaysFail", op |-> <<>>, a |-> <<>>]

Check(check, v) ==
    CASE check.side = "first" -> firstOp(check.op, check.a, v)
      [] check.side = "second" -> secondOp(check.op, check.a, v)
      [] OTHER -> FALSE

(***************************************************************************)
(* parseConstraints                                                        *)
(***************************************************************************)
\* Position after the greedy \d+(?:\.\d+){0,2} tried at i; 0 if none
NumLitEnd(s, i) == AfterDotDigits(s, AfterDotDigits(s, AfterDigits(s, i)))

\* (\<=|\>=|\<|\>) at position i; <<>> if none
OpAt(s, i) ==
    IF HasAt(s, i, "<") /\ HasAt(s, i + 1, "=") THEN LE
    ELSE IF HasAt(s, i, ">") /\ HasAt(s, i + 1, "=") THEN GE
    ELSE IF HasAt(s, i, "<") THEN LT
    ELSE IF HasAt(s, i, ">") THEN GT
    ELSE <<>>

AfterOp(s, i) == IF OpAt(s, i) # <<>> THEN i + Len(OpAt(s, i)) ELSE 0

\* /((?:\d+(?:\.\d+){0,2}))\s+(\<=|\>=|\<|\>)\s+v/ tried at position i:
\* e is the position after the literal, o the position of the operator
FirstGroups(s, i, e, o) ==
    IF HasAt(s, AfterSpaces(s, AfterOp(s, o)), "v")
    THEN <<SubSeq(s, i, e - 1), OpAt(s, o)>>
    ELSE Null

FirstAfterLiteral(s, i, e) == FirstGroups(s, i, e, AfterSpaces(s, e))

FirstAt(s, i) == FirstAfterLiteral(s, i, NumLitEnd(s, i))

\* /v\s+(\<=|\>=|\<|\>)\s+((?:\d+(?:\.\d+){0,2}))/ tried at position i:
\* o is the position of the operator, q the position of the literal
SecondGroups(s, o, q) ==
    IF NumLitEnd(s, q) # 0
    THEN <<OpAt(s, o), SubSeq(s, q, NumLitEnd(s, q) - 1)>>
    ELSE Null

SecondAfterV(s, o) == SecondGroups(s, o, AfterSpaces(s, AfterOp(s, o)))

SecondAt(s, i) ==
    IF HasAt(s, i, "v") THEN SecondAfterV(s, AfterSpaces(s, i + 1)) ELSE Null

\* constraint.match(first): the leftmost position where the pattern matches
RECURSIVE firstMatchFrom(_, _)
firstMatchFrom(s, i) ==
    IF i > Len(s) THEN Null
    ELSE IF FirstAt(s, i) # Null THEN FirstAt(s, i)
    ELSE firstMatchFrom(s, i + 1)

firstMatch(s) == firstMatchFrom(s, 1)

RECURSIVE secondMatchFrom(_, _)
secondMatchFrom(s, i) ==
    IF i > Len(s) THEN Null
    ELSE IF SecondAt(s, i) # Null THEN SecondAt(s, i)
    ELSE secondMatchFrom(s, i + 1)

secondMatch(s) == secondMatchFrom(s, 1)

\* firstVersion ? firstOp[op](firstVersion) : alwaysFail, and the same for
\* the second side
Predicate(side, op, version) ==
    IF version # Null THEN [side |-> side, op |-> op, a |-> version]
    ELSE alwaysFail

\* the array parseConstraints returns for the two matches
ConstraintsOf(fm, sm) ==
    IF fm # Null /\ sm # Null
    THEN << Predicate("first", fm[2], parseVersionString(fm[1])),
            Predicate("second", sm[1], parseVersionString(sm[2])) >>
    ELSE Null

\* the array a parseConstraints would return that accepts one side alone
ConstraintsOf_oneSided(fm, sm) ==
    IF fm # Null \/ sm # Null
    THEN << IF fm # Null
            THEN Predicate("first", fm[2], parseVersionString(fm[1]))
            ELSE alwaysFail,
            IF sm # Null
            THEN Predicate("second", sm[1], parseVersionString(sm[2]))
            ELSE alwaysFail >>
    ELSE Null

\* parseConstraints accepting a constraint with one side only
parseConstraints_oneSided(constraint) ==
    ConstraintsOf_oneSided(firstMatch(constraint), secondMatch(constraint))

parseConstraints(constraint) ==
    ConstraintsOf(firstMatch(constraint), secondMatch(constraint))

(***************************************************************************)
(* ExpandedVersion, VersionConstraint.match, findSuitable                  *)
(***************************************************************************)
\* new ExpandedVersion(expanded)
ExpandedVersion(expanded) ==
    [expanded |-> expanded, parsed |-> parseVersionString(expanded)]

\* VersionConstraint.match that asks the first predicate only
match_firstOnly(cs, version) ==
    IF version.parsed = Null THEN FALSE
    ELSE Check(cs[1], version.parsed)

\* VersionConstraint.match
match(cs, version) ==
    IF version.parsed = Null THEN FALSE
    ELSE \A k \in 1..Len(cs) : Check(cs[k], version.parsed)

LATEST == <<"l", "a", "t", "e", "s", "t">>

\* the loop of findSuitable keeping the last prefix match, not the first
RECURSIVE findSuitableLoop_lastDotted(_, _, _, _)
findSuitableLoop_lastDotted(version, pool, i, dottedMatch) ==
    IF i > Len(pool) THEN dottedMatch
    ELSE IF pool[i].expanded = version THEN ExpandedVersion(version)
    ELSE findSuitableLoop_lastDotted(version, pool, i + 1,
            IF StartsWith(pool[i].expanded, version \o <<".">>)
            THEN pool[i] ELSE dottedMatch)

\* the for loop of findSuitable from pool index i on
RECURSIVE findSuitableLoop(_, _, _, _)
findSuitableLoop(version, pool, i, dottedMatch) ==
    IF i > Len(pool) THEN dottedMatch
    ELSE IF pool[i].expanded = version THEN ExpandedVersion(version)
    ELSE findSuitableLoop(version, pool, i + 1,
            IF dottedMatch = Null
               /\ StartsWith(pool[i].expanded, version \o <<".">>)
            THEN pool[i] ELSE dottedMatch)

findSuitable(version, pool) ==
    IF version = LATEST
    THEN IF Len(pool) > 0 THEN pool[1] ELSE Null
    ELSE findSuitableLoop(version, pool, 1, Null)

(***************************************************************************)
(* ElmPackage.queryConstraints on the content of elm-package.json.         *)
(* A manifest is [kind |-> "unreadable"] (read or JSON error),             *)
(* [kind |-> "noKey"], [kind |-> "notString"] or                          *)
(* [kind |-> "string", value |-> the elm-version string].                 *)
(* Every failure is a throw inside the jsonfile.readFile callback.         *)
(***************************************************************************)
queryConstraints(m) ==
    IF m.kind = "unreadable"
    THEN [status |-> "throw", error |-> "BadElmPackage", value |-> Null]
    ELSE IF m.kind = "noKey"
    THEN [status |-> "throw", error |-> "NoVersionConstraint", value |-> Null]
    ELSE IF m.kind = "notString"
    THEN [status |-> "throw", error |-> "ParseConstraintFailed", value |-> Null]
    ELSE IF parseConstraints(m.value) = Null
    THEN [status |-> "throw", error |-> "ParseConstraintFailed", value |-> Null]
    ELSE [status |-> "resolve", error |-> "", value |-> parseConstraints(m.value)]

(***************************************************************************)
(* Inputs                                                                  *)
(***************************************************************************)
MaxPool == 3

Absent == <<>>

\* major[.minor[.patch]][-stage[increment]] written out from its parts
VersionStr(p) ==
    p[1]
    \o (IF p[2] # Absent THEN <<".">> \o p[2] ELSE <<>>)
    \o (IF p[3] # Absent THEN <<".">> \o p[3] ELSE <<>>)
    \o (IF p[4] # Absent THEN <<"-">> \o p[4] \o p[5] ELSE <<>>)

MajorInputs == { <<"0">>, <<"1">>, <<"1", "0">> }
MinorInputs == { Absent, <<"9">>, <<"1", "7">>, <<"1", "8">>, <<"1", "9">>,
                 <<"1", "8", "0">> }
PatchInputs == { Absent, <<"0">>, <<"5">>, <<"9">> }
StageInputs == { Absent, ALPHA, BETA, <<"r", "c">> }
IncInputs == { Absent, <<"2">> }

\* the parts of the strings that match the version grammar
VersionParts ==
    { p \in MajorInputs \X MinorInputs \X PatchInputs \X StageInputs \X IncInputs :
        /\ p[2] = Absent => p[3] = Absent
        /\ p[4] = Absent => p[5] = Absent }

\* strings that do not match the version grammar
GarbageInputs ==
    { <<>>, <<"v">>, <<"1", ".">>, <<".", "1">>, <<"1", ".", ".", "2">>,
      <<"1", ".", "2", ".", "3", ".", "4">>, <<"1", "-">>, <<"1", "-", "2">>,
      <<"1", "-", "a", "2", "b">>, <<"1", ".", "2", "a">>, LATEST,
      <<"0", ".", "1", "8", " ">>, <<"-", "a">> }

ParseInputs ==
    { [str |-> VersionStr(p), valid |-> TRUE, parts |-> p] : p \in VersionParts }
    \cup { [str |-> g, valid |-> FALSE, parts |-> <<>>] : g \in GarbageInputs }

V(maj, min, pat) == VersionStr(<<maj, min, pat, Absent, Absent>>)

\* literals and operators of the constraint strings
LiteralInputs == { V(<<"0">>, <<"1", "8">>, <<"0">>),
                   V(<<"0">>, <<"1", "9">>, <<"0">>),
                   V(<<"0">>, <<"9">>, Absent) }
OpInputs == { LT, LE, GT, GE }
SideInputs == { Absent } \cup (LiteralInputs \X OpInputs)
SepInputs == { <<" ">>, <<" ", " ">>, <<>> }

\* "<literal> <op> v <op> <literal>" with either side possibly left out and
\* with sep between the tokens (the patterns need white space there)
ConstraintStr(left, right, sep) ==
    (IF left # Absent THEN left[1] \o sep \o left[2] \o sep ELSE <<>>)
    \o <<"v">>
    \o (IF right # Absent THEN sep \o right[2] \o sep \o right[1] ELSE <<>>)

ConstraintInputs ==
    { [str |-> ConstraintStr(l, r, sep),
       left |-> l, right |-> r, sep |-> sep,
       hasLeft |-> (l # Absent /\ sep # <<>>),
       hasRight |-> (r # Absent /\ sep # <<>>)] :
      l \in SideInputs, r \in SideInputs, sep \in SepInputs }

ManifestInputs ==
    { [kind |-> k, value |-> <<>>, hasLeft |-> FALSE, hasRight |-> FALSE] :
      k \in {"unreadable", "noKey", "notString"} }
    \cup { [kind |-> "string", value |-> c.str,
            hasLeft |-> c.hasLeft, hasRight |-> c.hasRight] :
           c \in ConstraintInputs }

\* versions matched against the constraints
MatchInputs ==
    { i \in ParseInputs :
        i.valid => /\ i.parts[1] # <<"1">>
                   /\ i.parts[4] \in {Absent, ALPHA}
                   /\ i.parts[5] = Absent }

\* pools and requests of findSuitable
PoolStrings == { V(<<"0">>, <<"1", "8">>, <<"1">>),
                 V(<<"0">>, <<"1", "8">>, <<"0">>),
                 V(<<"0">>, <<"1", "7">>, <<"1">>),
                 V(<<"0">>, <<"1", "9">>, <<"0">>),
                 V(<<"0">>, <<"1", "8">>, Absent),
                 V(<<"0">>, <<"1", "8", "0">>, <<"0">>) }

RequestInputs == { LATEST,
                   V(<<"0">>, <<"1", "8">>, Absent),
                   V(<<"0">>, <<"1", "8">>, <<"0">>),
                   V(<<"0">>, <<"1", "9">>, Absent),
                   V(<<"0">>, Absent, Absent),
                   V(<<"1">>, Absent, Absent) }

RECURSIVE SeqsUpTo(_, _)
SeqsUpTo(S, n) ==
    IF n = 0 THEN { <<>> }
    ELSE LET shorter == SeqsUpTo(S, n - 1)
         IN  shorter \cup { Append(q, x) : q \in { r \in shorter : Len(r) = n - 1 }, x \in S }

PoolOf(strs) == [i \in 1..Len(strs) |-> ExpandedVersion(strs[i])]

PoolInputs == { PoolOf(q) : q \in SeqsUpTo(PoolStrings, MaxPool) }

(***************************************************************************)
(* The version catalogue: versions.json and the npm registry               *)
(***************************************************************************)
BLACKLISTED_VERSIONS == << V(<<"0">>, <<"0">>, <<"0">>) >>

FIRST_VERSION == VersionStr(<<<<"0">>, <<"1", "5">>, <<"1">>, ALPHA, Absent>>)

\* Array.prototype.indexOf, counted from 1; 0 when absent
IndexOf(q, x) ==
    IF \E i \in 1..Len(q) : q[i] = x
    THEN CHOOSE i \in 1..Len(q) : q[i] = x /\ \A j \in 1..(i - 1) : q[j] # x
    ELSE 0

\* Array.prototype.reverse
Reverse(q) == [i \in 1..Len(q) |-> q[Len(q) + 1 - i]]

isVersionBlacklisted(version) == IndexOf(BLACKLISTED_VERSIONS, version.expanded) >= 1

removeUnsupported(versions) ==
    LET index == IndexOf(versions, FIRST_VERSION) IN
    IF index >= 1 THEN SubSeq(versions, index, Len(versions)) ELSE versions

\* The pool queryElmVersions builds from Object.keys(data.versions)
isNotBlacklisted(version) == ~isVersionBlacklisted(version)

\* expanded.filter(isNotBlacklisted)
RECURSIVE filterNotBlacklisted(_)
filterNotBlacklisted(q) ==
    IF q = <<>> THEN <<>>
    ELSE IF isNotBlacklisted(Head(q))
    THEN <<Head(q)>> \o filterNotBlacklisted(Tail(q))
    ELSE filterNotBlacklisted(Tail(q))

legitimize(versions) == [i \in 1..Len(versions) |-> ExpandedVersion(versions[i])]

ElmVersionsPool(keys) ==
    Reverse(filterNotBlacklisted(legitimize(removeUnsupported(keys))))

\* queryElmVersions up to the cache write.  A registry answer is
\* [kind |-> "error"], [kind |-> "noVersions"] or [kind |-> "ok", keys |-> ..];
\* the two failures are thrown inside the client.get callback.
queryElmVersions(reg) ==
    IF reg.kind = "error"
    THEN [status |-> "throw", error |-> "NpmCommunicationError", value |-> <<>>]
    ELSE IF reg.kind = "noVersions"
    THEN [status |-> "throw", error |-> "NoElmVersions", value |-> <<>>]
    ELSE [status |-> "resolve", error |-> "", value |-> ElmVersionsPool(reg.keys)]

\* A JSON value stored in versions.json
JsonString(str) == [type |-> "string", str |-> str]
JsonOther == [type |-> "other", str |-> <<>>]

\* writeVersionCache that stores the pool oldest first
unpack_reversed(versions) ==
    [i \in 1..Len(versions) |-> JsonString(versions[Len(versions) + 1 - i].expanded)]

\* writeVersionCache: the file content jsonfile.writeFile leaves
unpack(versions) == [i \in 1..Len(versions) |-> JsonString(versions[i].expanded)]

writeVersionCache(versions) == [kind |-> "array", items |-> unpack(versions)]

\* queryVersionCache on a file that is [kind |-> "missing"], "unreadable"
\* (not JSON), "notArray", or [kind |-> "array", items |-> JSON values]
isString(s) == s.type = "string"

\* arr.filter(isString)
RECURSIVE stringify(_)
stringify(arr) ==
    IF arr = <<>> THEN <<>>
    ELSE IF isString(Head(arr)) THEN <<Head(arr)>> \o stringify(Tail(arr))
    ELSE stringify(Tail(arr))

promote(items) == [i \in 1..Len(items) |-> ExpandedVersion(items[i].str)]

queryVersionCache(file) ==
    IF file.kind \in {"missing", "unreadable"}
    THEN [status |-> "reject", error |-> "VersionCacheReadFail", value |-> <<>>]
    ELSE IF file.kind = "array"
    THEN [status |-> "resolve", error |-> "",
          value |-> promote(stringify(file.items))]
    ELSE [status |-> "reject", error |-> "VersionCacheReadFail", value |-> <<>>]

\* getCachedVersions without its catch: the read failure is passed on
getCachedVersions_noCatch(file) == queryVersionCache(file)

\* getCachedVersions of Forest.current: a read failure gives an empty cache
getCachedVersions(file) ==
    LET r == queryVersionCache(file) IN
    IF r.status = "reject" /\ r.error = "VersionCacheReadFail"
    THEN [status |-> "resolve", error |-> "", value |-> <<>>]
    ELSE r

\* checkAgainst returning the last version the constraint matches
RECURSIVE checkAgainst_last(_, _)
checkAgainst_last(versions, constraint) ==
    IF versions = <<>> THEN Null
    ELSE IF match(constraint, versions[Len(versions)])
    THEN versions[Len(versions)]
    ELSE checkAgainst_last(SubSeq(versions, 1, Len(versions) - 1), constraint)

\* checkAgainst of Forest.current: the first version the constraint matches
RECURSIVE checkAgainst(_, _)
checkAgainst(versions, constraint) ==
    IF versions = <<>> THEN Null
    ELSE IF match(constraint, Head(versions)) THEN Head(versions)
    ELSE checkAgainst(Tail(versions), constraint)

(***************************************************************************)
(* versions.json as a text: what jsonfile.writeFile stores for a value and *)
(* what jsonfile.readFile makes of the stored text                         *)
(***************************************************************************)
Quote == "\""
Backslash == "\\"

\* the text of a string without escapes: a quote inside it ends the string
JsonEscape_none(str) == str

\* JSON.stringify of the characters of a string: quote and backslash escaped
RECURSIVE JsonEscape(_)
JsonEscape(str) ==
    IF str = <<>> THEN <<>>
    ELSE IF Head(str) \in {Quote, Backslash}
    THEN <<Backslash, Head(str)>> \o JsonEscape(Tail(str))
    ELSE <<Head(str)>> \o JsonEscape(Tail(str))

JsonNull == <<"n", "u", "l", "l">>

\* the text of one JSON value
JsonText(value) ==
    IF isString(value) THEN <<Quote>> \o JsonEscape(value.str) \o <<Quote>>
    ELSE JsonNull

RECURSIVE JsonJoin(_)
JsonJoin(items) ==
    IF items = <<>> THEN <<>>
    ELSE IF Len(items) = 1 THEN JsonText(Head(items))
    ELSE JsonText(Head(items)) \o <<",">> \o JsonJoin(Tail(items))

\* JSON.stringify of an array
JSON_stringify(items) == <<"[">> \o JsonJoin(items) \o <<"]">>

Unreadable == [kind |-> "unreadable", items |-> <<>>]

\* JSON.parse of the text of an array, from position i on, with the items
\* read so far; Unreadable when the text is not JSON
RECURSIVE JsonValueAt(_, _, _)
RECURSIVE JsonStringAt(_, _, _, _)
RECURSIVE JsonAfterValue(_, _, _)
JsonValueAt(t, i, items) ==
    IF HasAt(t, i, Quote) THEN JsonStringAt(t, i + 1, <<>>, items)
    ELSE IF i + 3 <= Len(t) /\ SubSeq(t, i, i + 3) = JsonNull
    THEN JsonAfterValue(t, i + 4, Append(items, JsonOther))
    ELSE Unreadable

JsonStringAt(t, i, str, items) ==
    IF i > Len(t) THEN Unreadable
    ELSE IF t[i] = Quote
    THEN JsonAfterValue(t, i + 1, Append(items, JsonString(str)))
    ELSE IF t[i] = Backslash
    THEN IF i + 1 <= Len(t) /\ t[i + 1] \in {Quote, Backslash}
         THEN JsonStringAt(t, i + 2, Append(str, t[i + 1]), items)
         ELSE Unreadable
    ELSE JsonStringAt(t, i + 1, Append(str, t[i]), items)

JsonAfterValue(t, i, items) ==
    IF HasAt(t, i, ",") THEN JsonValueAt(t, i + 1, items)
    ELSE IF HasAt(t, i, "]") /\ i = Len(t)
    THEN [kind |-> "array", items |-> items]
    ELSE Unreadable

JSON_parse(t) ==
    IF t = <<"[", "]">> THEN [kind |-> "array", items |-> <<>>]
    ELSE IF HasAt(t, 1, "[") THEN JsonValueAt(t, 2, <<>>)
    ELSE Unreadable

\* jsonfile.writeFile(versionCache, unpacked): the text of the file
writeFile(value) == JSON_stringify(value.items)

\* jsonfile.readFile(versionCache): the value of the text of the file
readFile(text) == JSON_parse(text)

(***************************************************************************)
(* Inputs of the catalogue                                                 *)
(***************************************************************************)
MaxCache == 2
MaxListing == 2

NotAVersion == <<"v">>

\* strings found in versions.json
CacheStrings == { V(<<"0">>, <<"1", "8">>, <<"0">>),
                  V(<<"0">>, <<"1", "8">>, <<"1">>),
                  V(<<"0">>, <<"1", "9">>, <<"0">>),
                  NotAVersion }

CacheFiles ==
    { [kind |-> k, items |-> <<>>] : k \in {"missing", "unreadable", "notArray"} }
    \cup { [kind |-> "array", items |-> q] :
           q \in SeqsUpTo({ JsonString(x) : x \in CacheStrings } \cup { JsonOther },
                          MaxCache) }

\* keys of data.versions
ListingStrings == { V(<<"0">>, <<"0">>, <<"0">>),
                    V(<<"0">>, <<"1", "5">>, <<"0">>),
                    FIRST_VERSION,
                    V(<<"0">>, <<"1", "8">>, <<"0">>),
                    V(<<"0">>, <<"1", "8">>, <<"1">>) }

\* Object.keys never repeats a key
NoRepeat(q) == \A i, j \in 1..Len(q) : q[i] = q[j] => i = j

Registries ==
    { [kind |-> k, keys |-> <<>>] : k \in {"error", "noVersions"} }
    \cup { [kind |-> "ok", keys |-> q] :
           q \in { r \in SeqsUpTo(ListingStrings, MaxListing) : NoRepeat(r) } }

RangeConstraint ==
    ConstraintStr(<<V(<<"0">>, <<"1", "8">>, <<"0">>), LE>>,
                  <<V(<<"0">>, <<"1", "9">>, <<"0">>), LT>>, <<" ">>)

LeftOnlyConstraint ==
    ConstraintStr(<<V(<<"0">>, <<"1", "8">>, <<"0">>), LE>>, Absent, <<" ">>)

\* elm-package.json as seen from the working directory; "noProject" when
\* findLocalPackage finds none
Manifests ==
    { [kind |-> k, value |-> <<>>] :
      k \in {"noProject", "unreadable", "noKey", "notString"} }
    \cup { [kind |-> "string", value |-> c] :
           c \in {RangeConstraint, LeftOnlyConstraint} }

Pending == [status |-> "pending", error |-> "", version |-> Null]

NoCall == [fn |-> "none", in |-> <<>>, ret |-> <<>>]

NotRead == [file |-> [kind |-> "none", items |-> <<>>],
            status |-> "none", error |-> ""]

\* the version store before any call on it: the version is not installed
NoRoot == [exists |-> FALSE, files |-> {}]

Idle == [fn |-> "none", pc |-> "idle", err |-> "", failed |-> "",
         before |-> NoRoot]

\* no second invocation runs beside the command
NoInvocations == [home |-> TRUE, proc |-> <<>>]

StoreIdle ==
    /\ root = NoRoot
    /\ task = Idle
    /\ steps = <<>>
    /\ calls = <<>>
    /\ invocations = NoInvocations

\* no command has been given to the command line
NoRun == [status |-> "none", forest |-> FALSE, name |-> "", code |-> 0]

\* `ensured` says that ensureInstalled has resolved for the command, `binpath`
\* what became of the read of binpath.log, `child` the exit code of the
\* spawned command
NoCommand == [cmd |-> "none", ensured |-> FALSE, binpath |-> "unread",
              child |-> -1, run |-> NoRun, handler |-> "none",
              printed |-> "", status |-> -1]

(***************************************************************************)
(* Forest.current, one invocation of the command line after the other      *)
(***************************************************************************)
Fresh ==
    /\ writeFails = FALSE
    /\ pc = "start"
    /\ constraints = Null
    /\ cacheRead = NotRead
    /\ cachedVersions = <<>>
    /\ onlineVersions = <<>>
    /\ queried = FALSE
    /\ outcome = Pending

Init ==
    /\ call = NoCall
    /\ manifest \in Manifests
    /\ cacheFile \in CacheFiles
    /\ registry \in Registries
    /\ Fresh
    /\ StoreIdle
    /\ cli = NoCommand

\* readPackage: findLocalPackage, then ElmPackage.queryConstraints.
\* findPackage throws NoElmProject inside its promise executor (a rejection);
\* queryConstraints throws inside the readFile callback (never settles the
\* promise, the exception is uncaught).
current_readPackage ==
    /\ pc = "start"
    /\ IF manifest.kind = "noProject"
       THEN /\ outcome' = [status |-> "rejected", error |-> "NoElmProject",
                           version |-> Null]
            /\ pc' = "done"
            /\ UNCHANGED constraints
       ELSE LET r == queryConstraints(manifest) IN
            IF r.status = "throw"
            THEN /\ outcome' = [status |-> "uncaught", error |-> r.error,
                                version |-> Null]
                 /\ pc' = "done"
                 /\ UNCHANGED constraints
            ELSE /\ constraints' = r.value
                 /\ pc' = "cache"
                 /\ UNCHANGED outcome
    /\ UNCHANGED <<call, manifest, cacheFile, registry, writeFails, cacheRead,
                   cachedVersions, onlineVersions, queried>>
    /\ UNCHANGED <<storeVars, cli>>

\* getCachedVersions and the check of the cached pool
current_getCachedVersions ==
    /\ pc = "cache"
    /\ LET q == queryVersionCache(cacheFile)
           r == getCachedVersions(cacheFile)
       IN  /\ cacheRead' = [file |-> cacheFile, status |-> q.status,
                            error |-> q.error]
           /\ IF r.status = "reject"
              THEN /\ outcome' = [status |-> "rejected", error |-> r.error,
                                  version |-> Null]
                   /\ pc' = "done"
                   /\ UNCHANGED cachedVersions
              ELSE LET version == checkAgainst(r.value, constraints) IN
                   /\ cachedVersions' = r.value
                   /\ IF version = Null
                      THEN pc' = "online" /\ UNCHANGED outcome
                      ELSE /\ pc' = "done"
                           /\ outcome' = [status |-> "resolved", error |-> "",
                                          version |-> version]
    /\ UNCHANGED <<call, manifest, cacheFile, registry, writeFails, constraints,
                   onlineVersions, queried>>
    /\ UNCHANGED <<storeVars, cli>>

\* queryElmVersions passing the failure of writeVersionCache on
queryElmVersions_fatalWrite(expanded, fails) ==
    IF fails
    THEN [status |-> "reject", error |-> "VersionCacheWriteFail", value |-> <<>>]
    ELSE [status |-> "resolve", error |-> "", value |-> expanded]

\* queryElmVersions after writeVersionCache: its then and its catch both
\* resolve with the pool; the catch logs the failure
queryElmVersionsSettle(expanded, fails) ==
    [status |-> "resolve", error |-> "", value |-> expanded]

\* the then of tryOnline on what queryElmVersions settled with
tryOnlineThen(q, constraint) ==
    IF q.status = "reject"
    THEN [status |-> "rejected", error |-> q.error, version |-> Null]
    ELSE IF checkAgainst(q.value, constraint) = Null
    THEN [status |-> "rejected", error |-> "NoMatchingVersion", version |-> Null]
    ELSE [status |-> "resolved", error |-> "",
          version |-> checkAgainst(q.value, constraint)]

\* tryOnline: queryElmVersions, with its best-effort writeVersionCache (the
\* creation of the storage root or the write of versions.json may fail), and
\* the check of the fetched pool
current_tryOnline ==
    /\ pc = "online"
    /\ queried' = TRUE
    /\ pc' = "done"
    /\ LET r == queryElmVersions(registry) IN
       IF r.status = "throw"
       THEN /\ outcome' = [status |-> "uncaught", error |-> r.error,
                           version |-> Null]
            /\ UNCHANGED <<cacheFile, writeFails, onlineVersions>>
       ELSE \E fails \in BOOLEAN :
                 /\ writeFails' = fails
                 /\ cacheFile' = IF fails THEN cacheFile
                                 ELSE writeVersionCache(r.value)
                 /\ onlineVersions' = queryElmVersionsSettle(r.value, fails).value
                 /\ outcome' = tryOnlineThen(
                                   queryElmVersionsSettle(r.value, fails),
                                   constraints)
    /\ UNCHANGED <<call, manifest, registry, constraints, cacheRead,
                   cachedVersions>>
    /\ UNCHANGED <<storeVars, cli>>

\* the command is run again; the files stay as the last run left them
NewInvocation ==
    /\ pc = "done"
    /\ writeFails' = FALSE
    /\ pc' = "start"
    /\ constraints' = Null
    /\ cacheRead' = NotRead
    /\ cachedVersions' = <<>>
    /\ onlineVersions' = <<>>
    /\ queried' = FALSE
    /\ outcome' = Pending
    /\ UNCHANGED <<call, manifest, cacheFile, registry>>
    /\ UNCHANGED <<storeVars, cli>>

Next ==
    \/ current_readPackage
    \/ current_getCachedVersions
    \/ current_tryOnline
    \/ NewInvocation

Spec == Init /\ [][Next]_vars

(***************************************************************************)
(* Errors as the command line boundary gets them                           *)
(***************************************************************************)
\* enum Errors of the async revision; NoElmVersions = 2, then one by one
Errors ==
    <<"NoElmVersions", "NpmCommunicationError", "BinPathWriteFailed",
      "BinPathReadFailed", "BadElmPackage", "NoVersionConstraint",
      "ParseConstraintFailed", "NoMatchingVersion", "VersionCacheReadFail",
      "VersionCacheWriteFail", "NoElmProject", "NpmInitFailed",
      "NpmElmInstallFailed", "NpmBinFailed", "NpmRunFailed",
      "NpmCommandFailed", "ElmCommandFailed", "CommandFailed",
      "VersionNoExactMatch", "RemovalFailed", "IOError">>

ErrorCode(name) == IndexOf(Errors, name) + 1

\* new ForestError(name, message, code): this.code = code || 1; a code that
\* is not given is 0 here, which `||` treats alike
ForestError(name, code) ==
    [status |-> "rejected", forest |-> TRUE, name |-> name,
     code |-> IF code = 0 THEN 1 ELSE code]

\* an exception that is not a ForestError; its code, if any, is no number
OtherError(name) ==
    [status |-> "rejected", forest |-> FALSE, name |-> name, code |-> 0]

\* the error of a call on the version store as the command line gets it
ErrorOf(kind) ==
    IF kind \in { Errors[i] : i \in 1..Len(Errors) } THEN ForestError(kind, 0)
    ELSE OtherError(kind)

\* _cliCatch: what it prints and the status it gives process.exit
cliCatch(err) ==
    [printed |-> IF err.forest THEN "FOREST ERROR" ELSE "Unknown Error",
     status |-> IF err.code # 0 THEN err.code ELSE 1]

\* the errors the code raises without a code of their own, and an exception
\* that is no ForestError
RaisedErrors ==
    { ForestError(Errors[i], 0) :
      i \in { k \in 1..Len(Errors) :
              Errors[k] \notin {"NpmCommandFailed", "ElmCommandFailed",
                                "CommandFailed"} } }
    \cup { OtherError("Error") }

(***************************************************************************)
(* The library functions applied to inputs                                 *)
(***************************************************************************)
InitLib ==
    /\ call = NoCall
    /\ manifest = [kind |-> "noProject", value |-> <<>>]
    /\ cacheFile = [kind |-> "missing", items |-> <<>>]
    /\ registry = [kind |-> "error", keys |-> <<>>]
    /\ Fresh
    /\ StoreIdle
    /\ cli = NoCommand

CallParseVersionString ==
    /\ call = NoCall
    /\ \E i \in ParseInputs :
         call' = [fn |-> "parseVersionString", in |-> i,
                  ret |-> parseVersionString(i.str)]
    /\ UNCHANGED <<catalogVars, storeVars, cli>>

CallParseConstraints ==
    /\ call = NoCall
    /\ \E c \in ConstraintInputs :
         call' = [fn |-> "parseConstraints", in |-> c,
                  ret |-> parseConstraints(c.str)]
    /\ UNCHANGED <<catalogVars, storeVars, cli>>

CallQueryConstraints ==
    /\ call = NoCall
    /\ \E m \in ManifestInputs :
         call' = [fn |-> "queryConstraints", in |-> m,
                  ret |-> queryConstraints(m)]
    /\ UNCHANGED <<catalogVars, storeVars, cli>>

\* new VersionConstraint(parseConstraints(c)).match(new ExpandedVersion(v))
CallMatch ==
    /\ call = NoCall
    /\ \E c \in { x \in ConstraintInputs : x.sep = <<" ">> } :
         LET cs == parseConstraints(c.str) IN
         /\ cs # Null
         /\ \E v \in MatchInputs :
              LET version == ExpandedVersion(v.str) IN
              call' = [fn |-> "match",
                       in |-> [constraint |-> c, version |-> version],
                       ret |-> [constraints |-> cs,
                                checks |-> IF version.parsed = Null THEN <<>>
                                           ELSE <<Check(cs[1], version.parsed),
                                                  Check(cs[2], version.parsed)>>,
                                match |-> match(cs, version)]]
    /\ UNCHANGED <<catalogVars, storeVars, cli>>

CallFindSuitable ==
    /\ call = NoCall
    /\ \E r \in RequestInputs, pool \in PoolInputs :
         call' = [fn |-> "findSuitable", in |-> [version |-> r, pool |-> pool],
                  ret |-> findSuitable(r, pool)]
    /\ UNCHANGED <<catalogVars, storeVars, cli>>

\* strings of a pool that is written to the cache; one holds the two
\* characters JSON escapes
QuotedInput == <<"1", Quote, Backslash>>

WrittenStrings == { V(<<"0">>, <<"1", "8">>, <<"0">>),
                    V(<<"0">>, <<"1", "8">>, <<"1">>),
                    NotAVersion,
                    QuotedInput }

WrittenPools == { PoolOf(q) : q \in SeqsUpTo(WrittenStrings, MaxPool) }

\* arrays found in versions.json, strings and other values mixed
StoredArrays ==
    SeqsUpTo({ JsonString(x) : x \in WrittenStrings } \cup { JsonOther }, MaxPool)

\* writeVersionCache(pool), then queryVersionCache() on the file it left
CallWriteVersionCache ==
    /\ call = NoCall
    /\ \E pool \in WrittenPools :
         call' = [fn |-> "writeVersionCache", in |-> pool,
                  ret |-> queryVersionCache(
                              readFile(writeFile(writeVersionCache(pool))))]
    /\ UNCHANGED <<catalogVars, storeVars, cli>>

\* queryVersionCache() on a versions.json that holds the array
CallQueryVersionCache ==
    /\ call = NoCall
    /\ \E arr \in StoredArrays :
         call' = [fn |-> "queryVersionCache", in |-> arr,
                  ret |-> queryVersionCache(readFile(JSON_stringify(arr)))]
    /\ UNCHANGED <<catalogVars, storeVars, cli>>

\* _cliCatch at the end of two runs of a command, each with its error
CallCliCatch ==
    /\ call = NoCall
    /\ \E e1 \in RaisedErrors, e2 \in RaisedErrors :
         call' = [fn |-> "_cliCatch", in |-> <<e1, e2>>,
                  ret |-> <<cliCatch(e1), cliCatch(e2)>>]
    /\ UNCHANGED <<catalogVars, storeVars, cli>>

\* Paths of findPackage: [abs, segs] is "/" followed by the names for an
\* absolute path and the names alone for a relative one; the relative path
\* without names is ".", which path.normalize gives for the empty string too.
MaxDepth == 2

DirNames == {"a", "b"}

AbsPath(segs) == [abs |-> TRUE, segs |-> segs]

RelPath(segs) == [abs |-> FALSE, segs |-> segs]

\* path.parse(p).root is "/" for an absolute path and "" for a relative one;
\* a normalized relative path is never ""
IsParsedRoot(p) == p.abs /\ p.segs = <<>>

\* path.dirname: "/" of "/", "." of "." and of a single relative name
dirname(p) ==
    IF p.segs = <<>> THEN p
    ELSE [abs |-> p.abs, segs |-> SubSeq(p.segs, 1, Len(p.segs) - 1)]

\* the directory a path names for the filesystem, relative to the cwd
ResolvePath(cwd, p) == IF p.abs THEN p ELSE AbsPath(cwd.segs \o p.segs)

\* fs.existsSync(path.join(current, 'elm-package.json'))
existsSync(fs, cwd, current) == ResolvePath(cwd, current) \in fs

NoPackage == AbsPath(<<"?">>)

\* the while loop of findPackage; a turn that leaves `current` as it was
\* is followed by the same turn for ever
RECURSIVE findPackageLoop(_, _, _)
findPackageLoop(fs, cwd, current) ==
    IF IsParsedRoot(current)
    THEN [status |-> "rejected", error |-> "NoElmProject", package |-> NoPackage]
    ELSE IF existsSync(fs, cwd, current)
    THEN [status |-> "resolved", error |-> "",
          package |-> ResolvePath(cwd, current)]
    ELSE IF dirname(current) = current
    THEN [status |-> "never returns", error |-> "", package |-> NoPackage]
    ELSE findPackageLoop(fs, cwd, dirname(current))

findPackage(fs, cwd, start) == findPackageLoop(fs, cwd, start)

\* directories of the filesystem, working directories, start paths and the
\* sets of directories that hold an elm-package.json
DirInputs == { AbsPath(q) : q \in SeqsUpTo(DirNames, MaxDepth) }

CwdInputs == { d \in DirInputs : Len(d.segs) <= 1 }

StartInputs == DirInputs \cup { RelPath(q) : q \in SeqsUpTo(DirNames, MaxDepth) }

ProjectInputs == { fs \in SUBSET DirInputs : Cardinality(fs) <= 2 }

CallFindPackage ==
    /\ call = NoCall
    /\ \E fs \in ProjectInputs, cwd \in CwdInputs, start \in StartInputs :
         call' = [fn |-> "findPackage",
                  in |-> [fs |-> fs, cwd |-> cwd, start |-> start],
                  ret |-> findPackage(fs, cwd, start)]
    /\ UNCHANGED <<catalogVars, storeVars, cli>>

\* expandVersionCached: an exact match of the request within versions.json
RECURSIVE exactMatch(_, _)
exactMatch(versions, version) ==
    IF versions = <<>> THEN Null
    ELSE IF Head(versions).expanded = version THEN Head(versions)
    ELSE exactMatch(Tail(versions), version)

expandVersionCached(file, version) ==
    IF queryVersionCache(file).status = "reject"
    THEN [status |-> "rejected", error |-> queryVersionCache(file).error,
          value |-> Null, queried |-> FALSE]
    ELSE IF exactMatch(queryVersionCache(file).value, version) = Null
    THEN [status |-> "rejected", error |-> "VersionNoExactMatch",
          value |-> Null, queried |-> FALSE]
    ELSE [status |-> "resolved", error |-> "",
          value |-> exactMatch(queryVersionCache(file).value, version),
          queried |-> FALSE]

\* expandVersionNpm: queryElmVersions, then findSuitable on its pool
expandVersionNpm(reg, version) ==
    IF queryElmVersions(reg).status = "throw"
    THEN [status |-> "uncaught", error |-> queryElmVersions(reg).error,
          value |-> Null, queried |-> TRUE]
    ELSE IF findSuitable(version, queryElmVersions(reg).value) = Null
    THEN [status |-> "rejected", error |-> "NoMatchingVersion",
          value |-> Null, queried |-> TRUE]
    ELSE [status |-> "resolved", error |-> "",
          value |-> findSuitable(version, queryElmVersions(reg).value),
          queried |-> TRUE]

\* the catch of expandVersion: only NoMatchingVersion leads to the registry
expandVersionCatch(cached, reg, version) ==
    IF cached.status = "rejected" /\ cached.error = "NoMatchingVersion"
    THEN expandVersionNpm(reg, version)
    ELSE cached

\* the then of expandVersion in src/src/forest.ts: a promise whose executor
\* throws for null and otherwise returns without resolve or reject
expandVersionThen(r) ==
    IF r.status # "resolved" THEN r
    ELSE IF r.value = Null
    THEN [status |-> "rejected", error |-> "NoMatchingVersion",
          value |-> Null, queried |-> r.queried]
    ELSE [status |-> "pending", error |-> "", value |-> Null,
          queried |-> r.queried]

expandVersion(file, reg, version) ==
    expandVersionThen(
        expandVersionCatch(expandVersionCached(file, version), reg, version))

\* the end of expandVersion in the async revision
async_expandVersionEnd(r) ==
    IF r.status # "resolved" \/ r.queried THEN r
    ELSE IF r.value = Null
    THEN [status |-> "rejected", error |-> "NoMatchingVersion",
          value |-> Null, queried |-> r.queried]
    ELSE r

async_expandVersion(file, reg, version) ==
    async_expandVersionEnd(
        expandVersionCatch(expandVersionCached(file, version), reg, version))

\* cache files and registry answers of expandVersion
ExpandStrings == { V(<<"0">>, <<"1", "8">>, <<"0">>),
                   V(<<"0">>, <<"1", "9">>, <<"0">>) }

ExpandCacheFiles ==
    { [kind |-> "missing", items |-> <<>>] }
    \cup { [kind |-> "array", items |-> q] :
           q \in SeqsUpTo({ JsonString(x) : x \in ExpandStrings }, MaxCache) }

ExpandRegistries ==
    { [kind |-> "error", keys |-> <<>>] }
    \cup { [kind |-> "ok", keys |-> q] :
           q \in { r \in SeqsUpTo(ExpandStrings, MaxListing) : NoRepeat(r) } }

CallExpandVersion ==
    /\ call = NoCall
    /\ \E file \in ExpandCacheFiles, reg \in ExpandRegistries,
          version \in RequestInputs :
         \/ call' = [fn |-> "expandVersion",
                     in |-> [file |-> file, reg |-> reg, version |-> version],
                     ret |-> expandVersion(file, reg, version)]
         \/ call' = [fn |-> "async expandVersion",
                     in |-> [file |-> file, reg |-> reg, version |-> version],
                     ret |-> async_expandVersion(file, reg, version)]
    /\ UNCHANGED <<catalogVars, storeVars, cli>>

\* pools that hold alpha and beta versions, as the registry lists them
Staged(maj, min, pat, stage) == VersionStr(<<maj, min, pat, stage, Absent>>)

StagedStrings == { Staged(<<"0">>, <<"1", "8">>, <<"0">>, BETA),
                   Staged(<<"0">>, <<"1", "8">>, <<"0">>, Absent),
                   Staged(<<"0">>, <<"1", "9">>, <<"0">>, ALPHA) }

StagedPools == { PoolOf(q) : q \in SeqsUpTo(StagedStrings, MaxPool) }

StagedRequests == { LATEST,
                    V(<<"0">>, <<"1", "8">>, Absent),
                    V(<<"0">>, <<"1", "9">>, Absent),
                    Staged(<<"0">>, <<"1", "8">>, <<"0">>, BETA) }

CallFindSuitableStaged ==
    /\ call = NoCall
    /\ \E r \in StagedRequests, pool \in StagedPools :
         call' = [fn |-> "findSuitable", in |-> [version |-> r, pool |-> pool],
                  ret |-> findSuitable(r, pool)]
    /\ UNCHANGED <<catalogVars, storeVars, cli>>

\* The library revision behind the bin command line (src/src/lib/forest.ts).
\* parseVersion: s.split('-')[0].split('.').map(parseInt), for a text whose
\* part before '-' is digit groups separated by dots
RECURSIVE lib_splitDots(_, _)
lib_splitDots(s, i) ==
    IF i > Len(s) \/ s[i] = "-" THEN <<>>
    ELSE IF s[i] = "." THEN lib_splitDots(s, i + 1)
    ELSE <<parseInt(SubSeq(s, i, i + DigitRun(s, i) - 1))>>
         \o lib_splitDots(s, i + DigitRun(s, i))

lib_parseVersion(s) == lib_splitDots(s, 1)

\* testVersionConstraint: constraints.every((c) => c(thisVersion))
lib_testVersionConstraint(cs, version) ==
    \A k \in 1..Len(cs) : Check(cs[k], lib_parseVersion(version))

\* Array.prototype.find: the first element that passes, else undefined
Undefined == [type |-> "undefined", str |-> <<>>]

RECURSIVE lib_find(_, _)
lib_find(versions, cs) ==
    IF versions = <<>> THEN Undefined
    ELSE IF lib_testVersionConstraint(cs, Head(versions))
    THEN JsonString(Head(versions))
    ELSE lib_find(Tail(versions), cs)

\* selectBestVersion: the rejection is for `best === null`, which is false
\* for undefined
lib_selectBestVersion(versions, cs) ==
    IF lib_find(versions, cs).type = "null"
    THEN [status |-> "rejected", error |-> "couldnt find matching elm version",
          value |-> Undefined]
    ELSE [status |-> "resolved", error |-> "", value |-> lib_find(versions, cs)]

\* version lists and the two predicates of a constraint
LibStrings == { V(<<"0">>, <<"1", "7">>, <<"1">>),
                V(<<"0">>, <<"1", "8">>, <<"0">>),
                V(<<"0">>, <<"1", "8">>, <<"1">>),
                V(<<"0">>, <<"1", "9">>, <<"0">>) }

LibLists == SeqsUpTo(LibStrings, MaxPool)

LibRange(low, high) ==
    << [side |-> "first", op |-> LE, a |-> lib_parseVersion(low)],
       [side |-> "second", op |-> LT, a |-> lib_parseVersion(high)] >>

LibConstraints ==
    { LibRange(V(<<"0">>, <<"1", "8">>, <<"0">>), V(<<"0">>, <<"1", "9">>, <<"0">>)),
      LibRange(V(<<"0">>, <<"1", "8">>, <<"1">>), V(<<"0">>, <<"1", "9">>, <<"0">>)) }

CallSelectBestVersion ==
    /\ call = NoCall
    /\ \E versions \in LibLists, cs \in LibConstraints :
         call' = [fn |-> "selectBestVersion",
                  in |-> [versions |-> versions, constraints |-> cs],
                  ret |-> lib_selectBestVersion(versions, cs)]
    /\ UNCHANGED <<catalogVars, storeVars, cli>>

\* the call returns; the library keeps no state between calls
Return ==
    /\ call # NoCall
    /\ call' = NoCall
    /\ UNCHANGED <<catalogVars, storeVars, cli>>

NextLib ==
    \/ Return
    \/ CallParseVersionString
    \/ CallParseConstraints
    \/ CallQueryConstraints
    \/ CallMatch
    \/ CallFindSuitable
    \/ CallWriteVersionCache
    \/ CallQueryVersionCache
    \/ CallCliCatch
    \/ CallFindPackage
    \/ CallExpandVersion
    \/ CallFindSuitableStaged
    \/ CallSelectBestVersion

SpecLib == InitLib /\ [][NextLib]_vars

(***************************************************************************)
(* The version store: install, isElmInstalled, removeElmVersion and        *)
(* ensureInstalled on the storage directory of one version.  What fails    *)
(* (a stat, an npm command, a write, the removal) is chosen by the          *)
(* environment.                                                            *)
(***************************************************************************)
MaxCalls == 2

InstallSteps == <<"mkdirp", "npm init", "npm install", "npm bin", "binpath.log">>

\* isElmInstalled: the promise it returns, an object
isElmInstalled(r, statFault) ==
    IF statFault
    THEN [type |-> "object", status |-> "reject", error |-> "IOError",
          value |-> FALSE]
    ELSE [type |-> "object", status |-> "resolve", error |-> "",
          value |-> r.exists]

\* ToBoolean of a JavaScript value: every object is true
Truthy(x) == x.type = "object" \/ (x.type = "boolean" /\ x.value)

\* removeElmVersion that reports the removal without deleting anything
removeElmVersion_keep(r, statFault, rimrafFault) ==
    IF isElmInstalled(r, statFault).status = "reject"
    THEN [status |-> "rejected", error |-> "IOError", value |-> "", root |-> r]
    ELSE IF ~isElmInstalled(r, statFault).value
    THEN [status |-> "resolved", error |-> "", value |-> "false", root |-> r]
    ELSE [status |-> "resolved", error |-> "", value |-> "true", root |-> r]

\* removeElmVersion: how its promise ends and the directory it leaves
removeElmVersion(r, statFault, rimrafFault) ==
    IF isElmInstalled(r, statFault).status = "reject"
    THEN [status |-> "rejected", error |-> "IOError", value |-> "", root |-> r]
    ELSE IF ~isElmInstalled(r, statFault).value
    THEN [status |-> "resolved", error |-> "", value |-> "false", root |-> r]
    ELSE IF rimrafFault
    THEN [status |-> "rejected", error |-> "RemovalFailed", value |-> "",
          root |-> r]
    ELSE [status |-> "resolved", error |-> "", value |-> "true",
          root |-> NoRoot]

\* the catch of install: remove the directory if there is one, then throw
\* the error that was caught
installCatch(r, err, statFault, rimrafFault) ==
    IF isElmInstalled(r, statFault).status = "reject"
    THEN [error |-> "IOError", root |-> r, fault |-> "stat"]
    ELSE IF isElmInstalled(r, statFault).value
    THEN IF removeElmVersion(r, statFault, rimrafFault).status = "rejected"
         THEN [error |-> removeElmVersion(r, statFault, rimrafFault).error,
               root |-> r, fault |-> "rimraf"]
         ELSE [error |-> err, root |-> NoRoot, fault |-> ""]
    ELSE [error |-> err, root |-> r, fault |-> ""]

\* the value the caller gets when install has resolved [version, true]:
\* install itself the pair, Forest.install result[1], ensureInstalled the
\* version
ResolvedValue(fn) ==
    IF fn \in {"install", "Forest.install"} THEN "true" ELSE "version"

\* ensureInstalled of forest.ts chains install(..).then(..) without a catch:
\* a rejection of install leaves its own promise pending
Delivered(fn, status) ==
    IF fn = "ensureInstalled" /\ status = "rejected" THEN "pending" ELSE status

\* the call ends
Settle(status, error, value, failed, rollback, after) ==
    /\ calls' = Append(calls, [fn |-> task.fn,
                               status |-> Delivered(task.fn, status),
                               error |-> error, value |-> value,
                               failed |-> failed, rollback |-> rollback,
                               before |-> task.before,
                               after |-> after, steps |-> steps'])
    /\ root' = after
    /\ task' = Idle

\* the call goes on with the next step
Continue(nextPc, after) ==
    /\ task' = [task EXCEPT !.pc = nextPc]
    /\ root' = after
    /\ UNCHANGED calls

\* the error of a failed step is noted and the next step is started all
\* the same
Catch_goOn(err, failed) ==
    /\ task' = [task EXCEPT !.pc = IF failed = "npm init" THEN "npm install"
                                   ELSE IF failed = "npm install" THEN "npm bin"
                                   ELSE "binpath.log",
                            !.failed = failed]
    /\ UNCHANGED <<root, calls>>

\* the call goes to the catch of install with the error err of step failed
Catch(err, failed) ==
    /\ task' = [task EXCEPT !.pc = "catch", !.err = err, !.failed = failed]
    /\ UNCHANGED <<root, calls>>

\* ForestInternal.install, or Forest.install which hands over to it, is called
install ==
    /\ cli = NoCommand
    /\ task = Idle
    /\ Len(calls) < MaxCalls
    /\ steps' = <<>>
    /\ \E fn \in {"install", "Forest.install"} :
         task' = [fn |-> fn, pc |-> "mkdirp", err |-> "", failed |-> "",
                  before |-> root]
    /\ UNCHANGED <<call, catalogVars, root, calls, cli, invocations>>

\* mkdirp(elmRoot(version))
install_mkdirp ==
    /\ task.pc = "mkdirp"
    /\ steps' = Append(steps, "mkdirp")
    /\ Continue("npm init", [root EXCEPT !.exists = TRUE])
    /\ UNCHANGED <<call, catalogVars, cli, invocations>>

\* runNpmCommand(version.expanded, ['init', '-y'], false)
install_npmInit ==
    /\ task.pc = "npm init"
    /\ steps' = Append(steps, "npm init")
    /\ \E ok \in BOOLEAN :
         IF ok
         THEN Continue("npm install",
                       [root EXCEPT !.files = @ \cup {"package.json"}])
         ELSE Catch("NpmInitFailed", "npm init")
    /\ UNCHANGED <<call, catalogVars, cli, invocations>>

\* runNpmCommand(version.expanded, ['install', '--save', version.forNpm()], false)
install_npmInstall ==
    /\ task.pc = "npm install"
    /\ steps' = Append(steps, "npm install")
    /\ \E ok \in BOOLEAN :
         IF ok
         THEN Continue("npm bin",
                       [root EXCEPT !.files = @ \cup {"node_modules"}])
         ELSE Catch("NpmElmInstallFailed", "npm install")
    /\ UNCHANGED <<call, catalogVars, cli, invocations>>

\* runNpmCommand(version.expanded, ['bin'], false)
install_npmBin ==
    /\ task.pc = "npm bin"
    /\ steps' = Append(steps, "npm bin")
    /\ \E ok \in BOOLEAN :
         IF ok THEN Continue("binpath.log", root)
         ELSE Catch("NpmBinFailed", "npm bin")
    /\ UNCHANGED <<call, catalogVars, cli, invocations>>

\* fs.writeFile(cachePath, binaryDir, ..): on an error the callback throws,
\* which no promise catches: the exception is uncaught and install pending
install_writeBinPath ==
    /\ task.pc = "binpath.log"
    /\ steps' = Append(steps, "binpath.log")
    /\ \E ok \in BOOLEAN :
         IF ok
         THEN Settle("resolved", "", ResolvedValue(task.fn), "", "",
                     [root EXCEPT !.files = @ \cup {"binpath.log"}])
         ELSE Settle("uncaught", "BinPathWriteFailed", "", "binpath.log", "",
                     root)
    /\ UNCHANGED <<call, catalogVars, cli, invocations>>

\* the catch of install
install_catch ==
    /\ task.pc = "catch"
    /\ steps' = steps
    /\ \E statFault \in BOOLEAN, rimrafFault \in BOOLEAN :
         Settle("rejected",
                installCatch(root, task.err, statFault, rimrafFault).error,
                "", task.failed,
                installCatch(root, task.err, statFault, rimrafFault).fault,
                installCatch(root, task.err, statFault, rimrafFault).root)
    /\ UNCHANGED <<call, catalogVars, cli, invocations>>

\* ensureInstalled of forest.ts: `if (isElmInstalled(version))` tests the
\* promise itself
ensureInstalled_installed(r, statFault) == Truthy(isElmInstalled(r, statFault))

ensureInstalled ==
    /\ cli = NoCommand
    /\ task = Idle
    /\ Len(calls) < MaxCalls
    /\ steps' = <<>>
    /\ \E statFault \in BOOLEAN :
         IF ensureInstalled_installed(root, statFault)
         THEN /\ calls' = Append(calls,
                      [fn |-> "ensureInstalled", status |-> "resolved",
                       error |-> "", value |-> "version",
                       failed |-> IF statFault THEN "stat" ELSE "",
                       rollback |-> "",
                       before |-> root, after |-> root, steps |-> <<>>])
              /\ UNCHANGED <<root, task>>
         ELSE /\ task' = [fn |-> "ensureInstalled", pc |-> "mkdirp",
                          err |-> "", failed |-> "", before |-> root]
              /\ UNCHANGED <<root, calls>>
    /\ UNCHANGED <<call, catalogVars, cli, invocations>>

\* runCommandIn or runNpmCommandIn of the async revision, called by cliElm
\* or cliNpm when current has resolved, is at
\* `await ensureInstalled(version, true)`
AwaitsEnsureInstalled ==
    /\ cli.cmd \in {"async elm", "async npm"}
    /\ pc = "done" /\ outcome.status = "resolved"
    /\ calls = <<>>

\* ensureInstalled of the async revision that installs whatever it finds
async_ensureInstalled_always(r) == FALSE

\* ensureInstalled of the async revision: `installed` is the awaited value
async_ensureInstalled_installed(r) == isElmInstalled(r, FALSE).value

async_ensureInstalled ==
    /\ cli = NoCommand \/ AwaitsEnsureInstalled
    /\ task = Idle
    /\ Len(calls) < MaxCalls
    /\ steps' = <<>>
    /\ \E statFault \in BOOLEAN :
         IF statFault
         THEN /\ calls' = Append(calls,
                      [fn |-> "async ensureInstalled", status |-> "rejected",
                       error |-> isElmInstalled(root, statFault).error,
                       value |-> "", failed |-> "stat",
                       rollback |-> "",
                       before |-> root, after |-> root, steps |-> <<>>])
              /\ UNCHANGED <<root, task>>
         ELSE IF async_ensureInstalled_installed(root)
         THEN /\ calls' = Append(calls,
                      [fn |-> "async ensureInstalled", status |-> "resolved",
                       error |-> "", value |-> "version", failed |-> "",
                       rollback |-> "",
                       before |-> root, after |-> root, steps |-> <<>>])
              /\ UNCHANGED <<root, task>>
         ELSE /\ task' = [fn |-> "async ensureInstalled", pc |-> "mkdirp",
                          err |-> "", failed |-> "", before |-> root]
              /\ UNCHANGED <<root, calls>>
    /\ UNCHANGED <<call, catalogVars, cli, invocations>>

\* Forest.remove, which is removeElmVersion
remove ==
    /\ cli = NoCommand
    /\ task = Idle
    /\ Len(calls) < MaxCalls
    /\ steps' = <<>>
    /\ \E statFault \in BOOLEAN, rimrafFault \in BOOLEAN :
         /\ calls' = Append(calls,
                [fn |-> "remove",
                 status |-> removeElmVersion(root, statFault, rimrafFault).status,
                 error |-> removeElmVersion(root, statFault, rimrafFault).error,
                 value |-> removeElmVersion(root, statFault, rimrafFault).value,
                 failed |-> IF statFault THEN "stat"
                            ELSE IF root.exists /\ rimrafFault THEN "rimraf"
                            ELSE "",
                 rollback |-> "",
                 before |-> root,
                 after |-> removeElmVersion(root, statFault, rimrafFault).root,
                 steps |-> <<>>])
         /\ root' = removeElmVersion(root, statFault, rimrafFault).root
    /\ UNCHANGED <<call, catalogVars, task, cli, invocations>>

\* the directory of a version an earlier run has installed
Installed ==
    [exists |-> TRUE, files |-> {"package.json", "node_modules", "binpath.log"}]

InitStore ==
    /\ call = NoCall
    /\ manifest = [kind |-> "noProject", value |-> <<>>]
    /\ cacheFile = [kind |-> "missing", items |-> <<>>]
    /\ registry = [kind |-> "error", keys |-> <<>>]
    /\ Fresh
    /\ root \in {NoRoot, Installed}
    /\ task = Idle
    /\ steps = <<>>
    /\ calls = <<>>
    /\ cli = NoCommand
    /\ invocations = NoInvocations

NextStore ==
    \/ install
    \/ install_mkdirp
    \/ install_npmInit
    \/ install_npmInstall
    \/ install_npmBin
    \/ install_writeBinPath
    \/ install_catch
    \/ ensureInstalled
    \/ async_ensureInstalled
    \/ remove

SpecStore == InitStore /\ [][NextStore]_vars

(***************************************************************************)
(* Two invocations of the async revision that install the same version at  *)
(* the same time.  Directory 2 is elmRoot(version), directory 1 the        *)
(* storage root expandRoot() and directory 0 the one above it, which       *)
(* exists.                                                                 *)
(***************************************************************************)
Procs == {1, 2}

\* isDir(current): fs.stat on the directory
isDir(level) ==
    \/ level = 0
    \/ level = 1 /\ invocations.home
    \/ level = 2 /\ root.exists

\* an invocation at the start of install: mkdirp(elmRoot(version))
Installing == [pc |-> "isDir", current |-> 2, doMake |-> <<>>, err |-> ""]

\* invocation p goes on as q
Goes(p, q) == [invocations EXCEPT !.proc[p] = q]

\* mkdirp: one turn of `while (!(await isDir(current)))`
async_mkdirp_isDir ==
    /\ \E p \in Procs :
         /\ invocations.proc[p].pc = "isDir"
         /\ invocations' =
              IF isDir(invocations.proc[p].current)
              THEN Goes(p, [invocations.proc[p] EXCEPT !.pc = "mkdir"])
              ELSE Goes(p, [invocations.proc[p] EXCEPT
                               !.doMake = Append(@, invocations.proc[p].current),
                               !.current = @ - 1])
    /\ UNCHANGED <<call, catalogVars, root, task, steps, calls, cli>>

\* mkdirp: one turn of `while (next)`: fs.mkdir fails with EEXIST on a
\* directory that exists, and mkdir rejects with that error
async_mkdirp_mkdir ==
    /\ \E p \in Procs :
         /\ invocations.proc[p].pc = "mkdir"
         /\ IF invocations.proc[p].doMake = <<>>
            THEN /\ invocations' =
                      Goes(p, [invocations.proc[p] EXCEPT !.pc = "steps"])
                 /\ UNCHANGED root
            ELSE IF isDir(invocations.proc[p].doMake[Len(invocations.proc[p].doMake)])
            THEN /\ invocations' =
                      Goes(p, [invocations.proc[p] EXCEPT !.pc = "catch",
                                                         !.err = "EEXIST"])
                 /\ UNCHANGED root
            ELSE IF invocations.proc[p].doMake[Len(invocations.proc[p].doMake)] = 1
            THEN /\ invocations' =
                      [home |-> TRUE,
                       proc |-> [invocations.proc EXCEPT
                                   ![p].doMake = SubSeq(@, 1, Len(@) - 1)]]
                 /\ UNCHANGED root
            ELSE /\ invocations' =
                      Goes(p, [invocations.proc[p] EXCEPT
                                 !.doMake = SubSeq(@, 1, Len(@) - 1)])
                 /\ root' = [root EXCEPT !.exists = TRUE]
    /\ UNCHANGED <<call, catalogVars, task, steps, calls, cli>>

\* dangerousInstall after mkdirp: npm init, npm install, npm bin and the
\* write of binpath.log; npm cannot be spawned in a directory that is gone
async_dangerousInstall ==
    /\ \E p \in Procs, ok \in BOOLEAN :
         /\ invocations.proc[p].pc = "steps"
         /\ IF ok /\ root.exists
            THEN /\ invocations' =
                      Goes(p, [invocations.proc[p] EXCEPT !.pc = "resolved"])
                 /\ root' = Installed
            ELSE /\ invocations' =
                      Goes(p, [invocations.proc[p] EXCEPT !.pc = "catch",
                                                         !.err = "NpmInitFailed"])
                 /\ UNCHANGED root
    /\ UNCHANGED <<call, catalogVars, task, steps, calls, cli>>

\* the catch of install: remove the directory if there is one, throw err
async_install_catch ==
    /\ \E p \in Procs :
         /\ invocations.proc[p].pc = "catch"
         /\ invocations' =
              Goes(p, [invocations.proc[p] EXCEPT !.pc = "rejected"])
         /\ root' = installCatch(root, invocations.proc[p].err, FALSE, FALSE).root
    /\ UNCHANGED <<call, catalogVars, task, steps, calls, cli>>

\* the command of an invocation that has ended is given again
async_install_again ==
    /\ \E p \in Procs :
         /\ invocations.proc[p].pc \in {"resolved", "rejected"}
         /\ invocations' = Goes(p, Installing)
    /\ UNCHANGED <<call, catalogVars, root, task, steps, calls, cli>>

InitRace ==
    /\ call = NoCall
    /\ manifest = [kind |-> "noProject", value |-> <<>>]
    /\ cacheFile = [kind |-> "missing", items |-> <<>>]
    /\ registry = [kind |-> "error", keys |-> <<>>]
    /\ Fresh
    /\ root = NoRoot
    /\ task = Idle
    /\ steps = <<>>
    /\ calls = <<>>
    /\ cli = NoCommand
    /\ \E home \in BOOLEAN :
         invocations = [home |-> home, proc |-> [p \in Procs |-> Installing]]

NextRace ==
    \/ async_mkdirp_isDir
    \/ async_mkdirp_mkdir
    \/ async_dangerousInstall
    \/ async_install_catch
    \/ async_install_again

SpecRace == InitRace /\ [][NextRace]_vars

(***************************************************************************)
(* The command line: a command, Forest.current, the proxied elm command    *)
(* and the way the process ends                                            *)
(***************************************************************************)
MaxExitCode == 20

\* the close handler of the child of runCommandIn / runIn with exit code c
childClosed(kind, c) ==
    IF c = 0 THEN [status |-> "resolved", forest |-> FALSE, name |-> "", code |-> 0]
    ELSE ForestError(kind, c)

\* the catch of runIn in the async revision: err.code === Errors.CommandFailed
async_runIn(err) ==
    IF err.status = "rejected" /\ err.forest
       /\ err.code = ErrorCode("CommandFailed")
    THEN ForestError("ElmCommandFailed", 0)
    ELSE err

\* getBinPath: a read error is thrown inside the readFile callback
getBinPath(r) ==
    IF "binpath.log" \in r.files THEN "resolve" ELSE "throw"

Thrown(name) == [status |-> "uncaught", forest |-> TRUE, name |-> name, code |-> 1]

\* cliCurrent: current(true).then(print); the process ends by itself
cliCurrent ==
    /\ cli.cmd = "current" /\ cli.handler = "none"
    /\ pc = "done" /\ outcome.status = "resolved"
    /\ cli' = [cli EXCEPT !.handler = "then", !.status = 0]
    /\ UNCHANGED <<call, catalogVars, storeVars>>

\* runIn of forest.ts, called by cliElm when current has resolved:
\* ensureInstalled, environSpawn with getBinPath, the child until it closes
runIn ==
    /\ cli.cmd = "elm" /\ cli.run = NoRun
    /\ pc = "done" /\ outcome.status = "resolved"
    /\ ensureInstalled_installed(root, FALSE)
    /\ IF getBinPath(root) = "throw"
       THEN cli' = [cli EXCEPT !.ensured = TRUE, !.binpath = "failed",
                               !.run = Thrown("BinPathReadFailed")]
       ELSE \E c \in 0..MaxExitCode :
              cli' = [cli EXCEPT !.ensured = TRUE, !.binpath = "read",
                                 !.child = c,
                                 !.run = childClosed("ElmCommandFailed", c)]
    /\ UNCHANGED <<call, catalogVars, storeVars>>

\* runIn of the async revision after `await ensureInstalled`: environSpawn
\* with getBinPath, the child until it closes, and the catch of runIn
async_runCommandIn ==
    /\ cli.cmd = "async elm" /\ cli.run = NoRun
    /\ Len(calls) = 1 /\ task = Idle
    /\ IF calls[1].status = "rejected"
       THEN cli' = [cli EXCEPT !.run = async_runIn(ErrorOf(calls[1].error))]
       ELSE IF calls[1].status = "uncaught"
       THEN cli' = [cli EXCEPT !.run = Thrown(calls[1].error)]
       ELSE IF getBinPath(root) = "throw"
       THEN cli' = [cli EXCEPT !.ensured = TRUE, !.binpath = "failed",
                               !.run = Thrown("BinPathReadFailed")]
       ELSE \E c \in 0..MaxExitCode :
              cli' = [cli EXCEPT
                        !.ensured = TRUE, !.binpath = "read",
                        !.child = c,
                        !.run = async_runIn(childClosed("CommandFailed", c))]
    /\ UNCHANGED <<call, catalogVars, storeVars>>

\* runNpmCommandIn of forest.ts, called by cliNpm when current has resolved:
\* ensureInstalled, then runNpmCommand spawns npm in the directory of the
\* version; without that directory the spawn emits an error nobody listens to
runNpmCommandIn ==
    /\ cli.cmd = "npm" /\ cli.run = NoRun
    /\ pc = "done" /\ outcome.status = "resolved"
    /\ ensureInstalled_installed(root, FALSE)
    /\ IF ~root.exists
       THEN cli' = [cli EXCEPT !.ensured = TRUE,
                               !.run = [status |-> "uncaught", forest |-> FALSE,
                                        name |-> "Error", code |-> 0]]
       ELSE \E c \in 0..MaxExitCode :
              cli' = [cli EXCEPT !.ensured = TRUE, !.child = c,
                                 !.run = childClosed("NpmCommandFailed", c)]
    /\ UNCHANGED <<call, catalogVars, storeVars>>

\* runNpmCommandIn of the async revision after `await ensureInstalled`
async_runNpmCommandIn ==
    /\ cli.cmd = "async npm" /\ cli.run = NoRun
    /\ Len(calls) = 1 /\ task = Idle
    /\ IF calls[1].status = "rejected"
       THEN cli' = [cli EXCEPT !.run = ErrorOf(calls[1].error)]
       ELSE IF calls[1].status = "uncaught"
       THEN cli' = [cli EXCEPT !.run = Thrown(calls[1].error)]
       ELSE \E c \in 0..MaxExitCode :
              cli' = [cli EXCEPT !.ensured = TRUE, !.child = c,
                                 !.run = childClosed("NpmCommandFailed", c)]
    /\ UNCHANGED <<call, catalogVars, storeVars>>

\* cliElm and cliNpm: the run has resolved, process.exit(0)
cliElm ==
    /\ cli.handler = "none" /\ cli.run.status = "resolved"
    /\ cli' = [cli EXCEPT !.handler = "then", !.status = 0]
    /\ UNCHANGED <<call, catalogVars, storeVars>>

\* .catch(_cliCatch) at the end of the chain of the command
catch_cliCatch ==
    /\ cli.cmd # "none" /\ cli.handler = "none"
    /\ \/ /\ pc = "done" /\ outcome.status = "rejected"
          /\ cli' = [cli EXCEPT
                       !.handler = "_cliCatch",
                       !.printed = cliCatch(ErrorOf(outcome.error)).printed,
                       !.status = cliCatch(ErrorOf(outcome.error)).status]
       \/ /\ cli.run.status = "rejected"
          /\ cli' = [cli EXCEPT !.handler = "_cliCatch",
                                !.printed = cliCatch(cli.run).printed,
                                !.status = cliCatch(cli.run).status]
    /\ UNCHANGED <<call, catalogVars, storeVars>>

\* process.on('uncaughtException'): FOREST FATAL, process.exit(1)
uncaughtException ==
    /\ cli.cmd # "none" /\ cli.handler = "none"
    /\ \/ pc = "done" /\ outcome.status = "uncaught"
       \/ cli.run.status = "uncaught"
    /\ cli' = [cli EXCEPT !.handler = "uncaughtException",
                          !.printed = "FOREST FATAL", !.status = 1]
    /\ UNCHANGED <<call, catalogVars, storeVars>>

\* what the commands find: a project or none, a cache or none, the registry
CliCacheFiles ==
    { [kind |-> "missing", items |-> <<>>],
      [kind |-> "array",
       items |-> <<JsonString(V(<<"0">>, <<"1", "8">>, <<"0">>))>>] }

CliRegistries ==
    { [kind |-> "error", keys |-> <<>>],
      [kind |-> "noVersions", keys |-> <<>>],
      [kind |-> "ok", keys |-> <<V(<<"0">>, <<"1", "8">>, <<"1">>)>>] }

InitCli ==
    /\ call = NoCall
    /\ manifest \in Manifests
    /\ cacheFile \in CliCacheFiles
    /\ registry \in CliRegistries
    /\ Fresh
    /\ root \in {NoRoot, Installed}
    /\ task = Idle
    /\ steps = <<>>
    /\ calls = <<>>
    /\ cli \in { [NoCommand EXCEPT !.cmd = c] : c \in {"current", "elm", "async elm", "npm", "async npm"} }
    /\ invocations = NoInvocations

NextCli ==
    \/ current_readPackage
    \/ current_getCachedVersions
    \/ current_tryOnline
    \/ cliCurrent
    \/ runIn
    \/ async_ensureInstalled
    \/ install_mkdirp
    \/ install_npmInit
    \/ install_npmInstall
    \/ install_npmBin
    \/ install_writeBinPath
    \/ install_catch
    \/ async_runCommandIn
    \/ runNpmCommandIn
    \/ async_runNpmCommandIn
    \/ cliElm
    \/ catch_cliCatch
    \/ uncaughtException

SpecCli == InitCli /\ [][NextCli]_vars

(***************************************************************************)
(* Reference notions used by the properties                                *)
(***************************************************************************)
\* numeric, element by element, left to right
RECURSIVE TupleLess(_, _)
TupleLess(a, b) ==
    IF a = <<>> \/ b = <<>> THEN FALSE
    ELSE IF Head(a) # Head(b) THEN NumLess(Head(a), Head(b))
    ELSE TupleLess(Tail(a), Tail(b))

TupleLE(a, b) == a = b \/ TupleLess(a, b)

\* x op y on tuples, numerically
TupleCmp(op, x, y) ==
    CASE op = LT -> TupleLess(x, y)
      [] op = LE -> TupleLE(x, y)
      [] op = GT -> TupleLess(y, x)
      [] op = GE -> TupleLE(y, x)

\* the tuple the version grammar assigns to a string written from parts p
GrammarTuple(p) ==
    << parseInt(p[1]), parseInt(OrZero(p[2])), parseInt(OrZero(p[3])),
       versionStageToInt(p[4]), parseInt(OrZero(p[5])) >>

\* x is q with some elements left out
RECURSIVE IsSubsequence(_, _)
IsSubsequence(x, q) ==
    IF x = <<>> THEN TRUE
    ELSE IF q = <<>> THEN FALSE
    ELSE IF Head(x) = Head(q) THEN IsSubsequence(Tail(x), Tail(q))
    ELSE IsSubsequence(x, Tail(q))

Expanded(pool) == [i \in 1..Len(pool) |-> pool[i].expanded]

\* the version satisfies both predicates of the constraint
Satisfies(cs, version) ==
    /\ version.parsed # Null
    /\ Check(cs[1], version.parsed)
    /\ Check(cs[2], version.parsed)

(***************************************************************************)
(* Properties                                                              *)
(***************************************************************************)

\* C1: for equal major.minor.patch the parsed tuples order as
\* stable > beta > alpha: a stage-tagged version parses to a smaller tuple
\* than the same number without a stage, and alpha to a smaller one than beta.
C1_StableAboveBetaAboveAlpha ==
    (call.fn = "parseVersionString" /\ call.in.valid
        /\ call.in.parts[4] # Absent)
    => LET p == call.in.parts
           stable == parseVersionString(
                        VersionStr(<<p[1], p[2], p[3], Absent, Absent>>))
           beta == parseVersionString(
                        VersionStr(<<p[1], p[2], p[3], BETA, p[5]>>))
       IN  /\ TupleLess(call.ret, stable)
           /\ p[4] = ALPHA => TupleLess(call.ret, beta)

\* C2: each predicate built by parseConstraints returns the numeric
\* element-by-element comparison of the literal's tuple and the version's.
C2_PredicatesCompareNumerically ==
    (call.fn = "match" /\ call.in.version.parsed # Null)
    => LET cs == call.ret.constraints
           v == call.in.version.parsed
       IN  /\ call.ret.checks[1] = TupleCmp(cs[1].op, cs[1].a, v)
           /\ call.ret.checks[2] = TupleCmp(cs[2].op, v, cs[2].a)

T_0_18_0 == << <<0>>, <<1, 8>>, <<0>>, versionStageToInt(Absent), <<0>> >>
T_0_19_0 == << <<0>>, <<1, 9>>, <<0>>, versionStageToInt(Absent), <<0>> >>

\* C3: "0.18.0 <= v < 0.19.0" is matched by exactly the valid versions whose
\* tuple lies in [0.18.0, 0.19.0).
C3_RangeMatchesHalfOpenRange ==
    (call.fn = "match" /\ call.in.constraint.str = RangeConstraint)
    => LET v == call.in.version.parsed IN
       call.ret.match = (/\ v # Null
                         /\ TupleLE(T_0_18_0, v)
                         /\ TupleLess(v, T_0_19_0))

\* C4: parseVersionString gives (major, minor or 0, patch or 0, stage rank,
\* increment or 0), each the numeric value of its part, for every string of
\* the grammar, and null for every other string.
C4_ParseGivesNumericTuple ==
    call.fn = "parseVersionString"
    => IF call.in.valid
       THEN call.ret = GrammarTuple(call.in.parts)
       ELSE call.ret = Null

\* C5: a constraint string without the left-hand or without the right-hand
\* part makes parseConstraints return null, which queryConstraints raises as
\* ParseConstraintFailed; what parseConstraints returns otherwise is a pair
\* of a left and a right comparison.
C5_OneSidedConstraintFails ==
    /\ call.fn = "parseConstraints"
       => /\ ~(call.in.hasLeft /\ call.in.hasRight) => call.ret = Null
          /\ call.ret # Null
             => /\ Len(call.ret) = 2
                /\ call.ret[1].side = "first"
                /\ call.ret[2].side = "second"
    /\ (call.fn = "queryConstraints" /\ call.in.kind = "string"
          /\ ~(call.in.hasLeft /\ call.in.hasRight))
       => /\ call.ret.status = "throw"
          /\ call.ret.error = "ParseConstraintFailed"

\* a left-only constraint was given and parseConstraints returned null
C5_Witness ==
    /\ call.fn = "parseConstraints"
    /\ call.in.str = LeftOnlyConstraint
    /\ call.in.hasLeft /\ ~call.in.hasRight
    /\ call.ret = Null

ConsultedPool == IF queried THEN onlineVersions ELSE cachedVersions

\* C7: the version Forest.current resolves with is the lowest-index entry of
\* the consulted pool that satisfies both predicates; when neither the cached
\* nor the fetched pool has such an entry it fails with NoMatchingVersion.
C7_CurrentTakesFirstMatch ==
    /\ outcome.status = "resolved"
       => \E i \in 1..Len(ConsultedPool) :
            /\ ConsultedPool[i] = outcome.version
            /\ Satisfies(constraints, ConsultedPool[i])
            /\ \A j \in 1..(i - 1) : ~Satisfies(constraints, ConsultedPool[j])
    /\ (/\ pc = "done" /\ queried /\ registry.kind = "ok"
        /\ \A i \in 1..Len(cachedVersions) :
             ~Satisfies(constraints, cachedVersions[i])
        /\ \A i \in 1..Len(onlineVersions) :
             ~Satisfies(constraints, onlineVersions[i]))
       => /\ outcome.status = "rejected"
          /\ outcome.error = "NoMatchingVersion"

\* current resolved with the first of two entries that both satisfy
C7_Witness ==
    /\ outcome.status = "resolved"
    /\ Len(ConsultedPool) >= 2
    /\ outcome.version = ConsultedPool[1]
    /\ ConsultedPool[2] # ConsultedPool[1]
    /\ Satisfies(constraints, ConsultedPool[2])

\* the file read has no string entry that satisfies the constraint
NoCachedMatch(file) ==
    \/ file.kind # "array"
    \/ \A i \in 1..Len(file.items) :
         ~(/\ file.items[i].type = "string"
           /\ Satisfies(constraints, ExpandedVersion(file.items[i].str)))

\* C8: the cache is consulted before the registry; once the cache was read,
\* the registry is queried iff the file was missing, unreadable, not an array
\* or without a satisfying version; VersionCacheReadFail never leaves current.
C8_RegistryOnlyAfterCacheMiss ==
    /\ queried => cacheRead.status # "none"
    /\ (pc = "done" /\ cacheRead.status # "none")
       => (queried <=> NoCachedMatch(cacheRead.file))
    /\ outcome.error # "VersionCacheReadFail"

\* the cache read failed, the registry was queried and current resolved
C8_Witness ==
    /\ pc = "done"
    /\ cacheRead.status = "reject"
    /\ cacheRead.error = "VersionCacheReadFail"
    /\ queried
    /\ outcome.status = "resolved"

FloorTuple == parseVersionString(FIRST_VERSION)

\* C9: the pool of queryElmVersions has no blacklisted version and no version
\* below FIRST_VERSION, and keeps the retained versions in reverse listing
\* order.
C9_PoolFilteredAndReversed ==
    (queried /\ registry.kind = "ok")
    => /\ \A i \in 1..Len(onlineVersions) :
            /\ \A k \in 1..Len(BLACKLISTED_VERSIONS) :
                 onlineVersions[i].expanded # BLACKLISTED_VERSIONS[k]
            /\ ~TupleLess(onlineVersions[i].parsed, FloorTuple)
       /\ IsSubsequence(Reverse(Expanded(onlineVersions)), registry.keys)

\* C10: every version of a pool given by queryVersionCache or
\* queryElmVersions has a parsed tuple, so findSuitable("latest", pool) never
\* gives a version without one.
C10_PoolsHoldOnlyValidVersions ==
    /\ \A i \in 1..Len(cachedVersions) : cachedVersions[i].parsed # Null
    /\ \A i \in 1..Len(onlineVersions) : onlineVersions[i].parsed # Null
    /\ findSuitable(LATEST, cachedVersions) # Null
       => findSuitable(LATEST, cachedVersions).parsed # Null

\* the strings among the values of a stored array, in their order
StringsOf(arr) ==
    LET kept == SelectSeq(arr, LAMBDA x : x.type = "string")
    IN  [i \in 1..Len(kept) |-> kept[i].str]

\* C11: a pool written by writeVersionCache is read back by queryVersionCache
\* with the same expanded strings in the same order; from a stored array
\* that also holds values that are not strings, exactly those are dropped and
\* the strings keep their order.
C11_CacheRoundTrip ==
    /\ call.fn = "writeVersionCache"
       => /\ call.ret.status = "resolve"
          /\ Expanded(call.ret.value) = Expanded(call.in)
    /\ call.fn = "queryVersionCache"
       => /\ call.ret.status = "resolve"
          /\ Expanded(call.ret.value) = StringsOf(call.in)

C11_Witness ==
    /\ call.fn = "writeVersionCache"
    /\ Expanded(call.in) = <<V(<<"0">>, <<"1", "8">>, <<"1">>), QuotedInput>>
    /\ Expanded(call.ret.value) = Expanded(call.in)

\* the calls of install itself (not those made through ensureInstalled)
InstallCalls ==
    { i \in 1..Len(calls) : calls[i].fn \in {"install", "Forest.install"} }

\* the steps of install that the rollback is for
FailingSteps == {"npm init", "npm install", "npm bin", "binpath.log"}

\* the error kind install raises for a failing step
ErrorOfStep(step) ==
    IF step = "npm init" THEN "NpmInitFailed"
    ELSE IF step = "npm install" THEN "NpmElmInstallFailed"
    ELSE IF step = "npm bin" THEN "NpmBinFailed"
    ELSE "BinPathWriteFailed"

\* C12: when a step of install fails (npm init, npm install, npm bin, the
\* write of binpath.log), install ends with a failure delivered to its caller
\* and the storage directory of the version no longer exists then; stated
\* for the runs in which the rollback itself meets no fault of the file
\* system.
C12_InstallRollsBack ==
    \A i \in InstallCalls :
        calls[i].failed \in FailingSteps /\ calls[i].rollback = ""
        => /\ calls[i].status = "rejected"
           /\ ~calls[i].after.exists

\* C13: the error install delivers after a failing step is the error of that
\* step, also when the removal of the rollback fails.
C13_OriginalErrorDelivered ==
    \A i \in InstallCalls :
        calls[i].failed \in FailingSteps /\ calls[i].status = "rejected"
        => calls[i].error = ErrorOfStep(calls[i].failed)

\* C14: when ensureInstalled of forest.ts resolves, the directory of the
\* version exists and binpath.log is written; it resolves without a step of
\* install only when the directory was there before.
C14_EnsureInstalledInstalls ==
    \A i \in 1..Len(calls) :
        calls[i].fn = "ensureInstalled" /\ calls[i].status = "resolved"
        => /\ calls[i].after.exists
           /\ "binpath.log" \in calls[i].after.files
           /\ calls[i].steps = <<>> => calls[i].before.exists

\* C15: in the async revision, of two ensureInstalled calls in sequence for a
\* version that was absent, all steps succeeding, the first runs the steps of
\* install once and the second runs none and resolves with the same version.
C15_EnsureInstalledTwice ==
    \A i \in 1..Len(calls) - 1 :
        /\ calls[i].fn = "async ensureInstalled"
        /\ calls[i + 1].fn = "async ensureInstalled"
        /\ ~calls[i].before.exists
        /\ calls[i].status = "resolved"
        /\ calls[i + 1].failed = ""
        => /\ calls[i].steps = InstallSteps
           /\ calls[i + 1].steps = <<>>
           /\ calls[i + 1].status = "resolved"
           /\ calls[i + 1].value = calls[i].value
           /\ calls[i + 1].after = calls[i].after

C15_Witness ==
    /\ Len(calls) = 2
    /\ calls[1].fn = "async ensureInstalled" /\ calls[1].steps = InstallSteps
    /\ calls[2].fn = "async ensureInstalled" /\ calls[2].steps = <<>>
    /\ calls[2].status = "resolved"
    /\ root = Installed

\* C16: Forest.install for a version whose directory exists runs no step of
\* install, leaves the directory as it is and reports 'already installed'
\* (false), not 'installed' (true).
C16_InstallOfInstalledIsNoOp ==
    \A i \in 1..Len(calls) :
        calls[i].fn = "Forest.install" /\ calls[i].before.exists
        => /\ calls[i].steps = <<>>
           /\ calls[i].after = calls[i].before
           /\ calls[i].status = "resolved" => calls[i].value = "false"

CommandFailures ==
    {"BadElmPackage", "NoVersionConstraint", "ParseConstraintFailed",
     "NpmCommunicationError", "NoElmVersions"}

\* C18: a failure raised while a command runs (BadElmPackage,
\* NoVersionConstraint, ParseConstraintFailed, NpmCommunicationError,
\* NoElmVersions) rejects the promise chain of the command and reaches
\* _cliCatch, which prints FOREST ERROR and exits; it is never an uncaught
\* exception and never leaves the promise pending.
C18_FailuresReachCliCatch ==
    outcome.error \in CommandFailures
    => /\ outcome.status = "rejected"
       /\ cli.handler # "none"
          => cli.handler = "_cliCatch" /\ cli.printed = "FOREST ERROR"

\* C19: every ForestError at the command line boundary gives an exit status
\* that is a small positive integer and differs from that of every other
\* error kind and from the generic status of an unanticipated failure.
C19_ExitStatusPerErrorKind ==
    call.fn = "_cliCatch"
    => /\ \A i \in 1..2 : call.ret[i].status \in 1..255
       /\ call.in[1] # call.in[2] => call.ret[1].status # call.ret[2].status

\* C20: in the async revision, when the proxied elm command exits with code
\* c, forest exits with status c, for c = 0 and for every other c.
C20_ChildExitCodePropagated ==
    cli.cmd = "async elm" /\ cli.child >= 0 /\ cli.handler # "none"
    => cli.status = cli.child

\* start itself and all of its ancestors, the filesystem root included
AncestorsOrSelf(dir) ==
    { AbsPath(SubSeq(dir.segs, 1, n)) : n \in 0..Len(dir.segs) }

\* the nearest of them that holds a manifest
NearestProject(fs, dir) ==
    CHOOSE d \in AncestorsOrSelf(dir) \cap fs :
        \A e \in AncestorsOrSelf(dir) \cap fs : Len(e.segs) <= Len(d.segs)

\* C21: findPackage(start) returns for every start path; it resolves to the
\* manifest of the nearest directory among start and all its ancestors up to
\* and including the filesystem root that holds one, and fails with
\* NoElmProject only when none of them holds one.
C21_FindPackageNearest ==
    call.fn = "findPackage" =>
        LET dir == ResolvePath(call.in.cwd, call.in.start)
            holders == AncestorsOrSelf(dir) \cap call.in.fs IN
        /\ call.ret.status # "never returns"
        /\ holders # {} =>
             /\ call.ret.status = "resolved"
             /\ call.ret.package = NearestProject(call.in.fs, dir)
        /\ holders = {} =>
             /\ call.ret.status = "rejected"
             /\ call.ret.error = "NoElmProject"

\* the request has a match in the readable cache / in the registry pool
CacheHasMatch(file, version) ==
    /\ queryVersionCache(file).status = "resolve"
    /\ exactMatch(queryVersionCache(file).value, version) # Null

RegistryHasMatch(reg, version) ==
    /\ queryElmVersions(reg).status = "resolve"
    /\ findSuitable(version, queryElmVersions(reg).value) # Null

\* C22: expandVersion(request) resolves with the cache's match when the
\* cache has one; when the cache has none it falls back to the registry
\* pool and findSuitable and resolves with that match; it fails with
\* NoMatchingVersion only when neither has a match, and with no other
\* error when the registry has one.
C22_ExpandVersionFallsBack ==
    call.fn \in {"expandVersion", "async expandVersion"} =>
        /\ CacheHasMatch(call.in.file, call.in.version) =>
             /\ call.ret.status = "resolved"
             /\ call.ret.value.expanded = call.in.version
        /\ ( /\ ~CacheHasMatch(call.in.file, call.in.version)
             /\ RegistryHasMatch(call.in.reg, call.in.version) ) =>
             /\ call.ret.status = "resolved"
             /\ call.ret.value =
                  findSuitable(call.in.version,
                               queryElmVersions(call.in.reg).value)
        /\ (call.ret.status = "rejected"
            /\ call.ret.error = "NoMatchingVersion") =>
             /\ ~CacheHasMatch(call.in.file, call.in.version)
             /\ ~RegistryHasMatch(call.in.reg, call.in.version)

\* the version carries an alpha or beta stage
IsStaged(version) ==
    /\ version.parsed # Null
    /\ version.parsed[4] \in {versionStageToInt(ALPHA), versionStageToInt(BETA)}

\* C23: findSuitable returns an alpha or beta version only when the request
\* string names exactly that version; for "latest" and for a prefix request
\* the returned version has no stage.
C23_StagedOnlyWhenNamed ==
    (call.fn = "findSuitable" /\ call.ret # Null /\ IsStaged(call.ret))
        => call.ret.expanded = call.in.version

\* C24: when the registry query succeeds and the cache write (creating the
\* storage root or writing versions.json) fails, queryElmVersions resolves
\* with the pool it builds from the listing, and Forest.current settles as
\* the check of that pool says: resolved with its first match, or
\* NoMatchingVersion when it has none; the write failure is not delivered.
C24_CacheWriteBestEffort ==
    (pc = "done" /\ queried /\ registry.kind = "ok" /\ writeFails) =>
        /\ onlineVersions = ElmVersionsPool(registry.keys)
        /\ outcome.error # "VersionCacheWriteFail"
        /\ outcome.status # "uncaught"
        /\ checkAgainst(ElmVersionsPool(registry.keys), constraints) # Null =>
             /\ outcome.status = "resolved"
             /\ outcome.version =
                  checkAgainst(ElmVersionsPool(registry.keys), constraints)
        /\ checkAgainst(ElmVersionsPool(registry.keys), constraints) = Null =>
             /\ outcome.status = "rejected"
             /\ outcome.error = "NoMatchingVersion"

\* the write failed after a query that found 0.18.x, and current resolved
C24_Witness ==
    /\ pc = "done"
    /\ queried
    /\ registry.kind = "ok"
    /\ writeFails
    /\ onlineVersions # <<>>
    /\ outcome.status = "resolved"
    /\ outcome.version = onlineVersions[1]

\* the list positions whose version passes every predicate
Passing(versions, cs) ==
    { i \in 1..Len(versions) : lib_testVersionConstraint(cs, versions[i]) }

\* C25: selectBestVersion(versions, constraints) resolves with the first
\* version in list order that satisfies every predicate, and rejects when no
\* version of the list (or an empty list) satisfies them; it never resolves
\* with undefined.
C25_SelectBestVersion ==
    call.fn = "selectBestVersion" =>
        /\ Passing(call.in.versions, call.in.constraints) # {} =>
             /\ call.ret.status = "resolved"
             /\ \E i \in Passing(call.in.versions, call.in.constraints) :
                  /\ \A j \in Passing(call.in.versions, call.in.constraints) :
                       i <= j
                  /\ call.ret.value = JsonString(call.in.versions[i])
        /\ Passing(call.in.versions, call.in.constraints) = {} =>
             call.ret.status = "rejected"
        /\ call.ret.status = "resolved" => call.ret.value # Undefined

\* the steps taken are the first steps of the install sequence in its
\* order, and a step that failed is the last one taken
StepsInOrder(taken, failed) ==
    /\ StartsWith(InstallSteps, taken)
    /\ failed \in FailingSteps => (taken # <<>> /\ taken[Len(taken)] = failed)

InstallSequential ==
    /\ StepsInOrder(steps, task.failed)
    /\ \A i \in 1..Len(calls) : StepsInOrder(calls[i].steps, calls[i].failed)

\* ensureInstalled has resolved before the command was spawned; in the async
\* revision it is the call the store has recorded
SpawnedAfterEnsure ==
    cli.child >= 0 =>
        /\ cli.ensured
        /\ cli.cmd \in {"async elm", "async npm"} =>
             (Len(calls) = 1 /\ calls[1].status = "resolved" /\ task = Idle)

\* C26 as stated: the install steps are strictly sequential, and the
\* toolchain or npm command is spawned only after ensureInstalled has
\* completed and binpath.log has been read.
C26_SpawnAfterBinPathRead ==
    /\ InstallSequential
    /\ SpawnedAfterEnsure
    /\ cli.child >= 0 => cli.binpath = "read"

\* C26 amended: the install steps are strictly sequential (each step starts
\* only after the one before it succeeded); a command is spawned only after
\* ensureInstalled has completed, and the toolchain command only after
\* binpath.log has been read as well; the npm command is spawned without
\* reading binpath.log.
C26_StepsSequential ==
    /\ InstallSequential
    /\ SpawnedAfterEnsure
    /\ (cli.child >= 0 /\ cli.cmd \in {"elm", "async elm"}) =>
         cli.binpath = "read"
    /\ (cli.child >= 0 /\ cli.cmd \in {"npm", "async npm"}) =>
         cli.binpath = "unread"

\* the elm command of the async revision was spawned after an install that
\* took all five steps
C26_Witness ==
    /\ cli.cmd = "async elm"
    /\ cli.child >= 0
    /\ cli.binpath = "read"
    /\ Len(calls) = 1
    /\ calls[1].steps = InstallSteps

\* C27: when two invocations install the same absent version at the same
\* time, under every interleaving of their isDir and mkdir steps both mkdirp
\* calls succeed: no install fails, and rolls the shared directory back,
\* with the EEXIST of a directory the other invocation has just created.
C27_ConcurrentMkdirpSucceeds ==
    \A p \in DOMAIN invocations.proc : invocations.proc[p].err # "EEXIST"

\* C28: only remove uninstalls: a call other than remove that starts on an
\* installed version (install, Forest.install behind `forest get`, or
\* ensureInstalled) leaves the version's directory and its binpath.log in
\* place, also when the call fails part-way.
C28_OnlyRemoveUninstalls ==
    \A i \in 1..Len(calls) :
        (calls[i].fn # "remove" /\ calls[i].before = Installed) =>
            /\ calls[i].after.exists
            /\ "binpath.log" \in calls[i].after.files

\* C29: when a registry query of Forest.current has resolved and its cache
\* write has succeeded, versions.json holds exactly the expanded strings of
\* the fetched pool in pool order; and a Forest.current that finds this
\* content for the same manifest resolves from it to the version the
\* fetched pool gave, without a registry query.
C29_SecondCurrentFromCache ==
    [][ /\ ( /\ pc = "online" /\ pc' = "done"
             /\ ~writeFails'
             /\ outcome'.status = "resolved" ) =>
               /\ cacheFile'.kind = "array"
               /\ StringsOf(cacheFile'.items) = Expanded(onlineVersions')
               /\ Len(cacheFile'.items) = Len(onlineVersions')
        /\ ( /\ pc = "cache"
             /\ registry.kind = "ok"
             /\ cacheFile = writeVersionCache(ElmVersionsPool(registry.keys))
             /\ checkAgainst(ElmVersionsPool(registry.keys), constraints) # Null ) =>
               /\ pc' = "done"
               /\ ~queried'
               /\ outcome'.status = "resolved"
               /\ outcome'.version =
                    checkAgainst(ElmVersionsPool(registry.keys), constraints)
      ]_vars

\* the second Forest.current resolved without a query from the cache the
\* first one wrote: the cache holds FIRST_VERSION, which only the registry
\* lists
C29_Witness ==
    /\ pc = "done"
    /\ ~queried
    /\ outcome.status = "resolved"
    /\ registry.kind = "ok"
    /\ cacheFile = writeVersionCache(ElmVersionsPool(registry.keys))
    /\ \E i \in 1..Len(cacheFile.items) : cacheFile.items[i].str = FIRST_VERSION

\* the members of a pool
PoolMembers(pool) == { pool[i] : i \in 1..Len(pool) }

\* C30: every version Forest.current resolves with has a parsed tuple that
\* is not null and passes both predicates of the manifest's constraint, and
\* is a member of the cached pool or of the pool just fetched from the
\* registry, whatever versions.json and the registry listing hold.
C30_ResolvedVersionIsSound ==
    (pc = "done" /\ outcome.status = "resolved") =>
        /\ outcome.version # Null
        /\ outcome.version.parsed # Null
        /\ constraints # Null
        /\ Len(constraints) = 2
        /\ Check(constraints[1], outcome.version.parsed)
        /\ Check(constraints[2], outcome.version.parsed)
        /\ outcome.version \in
             PoolMembers(cachedVersions) \cup PoolMembers(onlineVersions)

\* a version was resolved from the registry pool after the cache, which
\* holds a string that is no version, had no match
C30_Witness ==
    /\ pc = "done"
    /\ outcome.status = "resolved"
    /\ queried
    /\ outcome.version \in PoolMembers(onlineVersions)
    /\ \E i \in 1..Len(cachedVersions) : cachedVersions[i].parsed = Null

====
